---------------------------- MODULE Spec2Model ----------------------------
(***************************************************************************)
(* MECP optimisation drivers of easymecp:                                  *)
(*   mecpro   src/mecpro/mecp.py        (Python 2 + NumPy optimiser)       *)
(*   easymecp src/easymecp/easymecp.py  (Python 3 driver of the embedded   *)
(*                                       Fortran program MECP.x)           *)
(*   mecpsh   src/mecpsh/main.py        (earlier driver of MECP.x)         *)
(*                                                                         *)
(* Numbers.  A double is modelled by an exact rational <<n, d>> in lowest  *)
(* terms with d > 0; <<0, 0>> stands for a non-finite double (NaN, +Inf or *)
(* -Inf).  An operation with a non-finite operand, and a division by       *)
(* zero, give the non-finite value; every comparison with it is false, as  *)
(* for NaN.  In the optimiser the vectors that receive an infinity always  *)
(* also hold a NaN after the next sum, so which of the three it is does    *)
(* not change any branch taken.                                            *)
(* Square roots are not computed: sqrt(q) < t is evaluated as              *)
(* 0 < t /\ q < t*t, and the quotients by a norm are written with the      *)
(* squared norm.                                                           *)
(* Units.  mecpro: lengths in 1e-8 Angstrom and gradients in 1e-8          *)
(* Hartree/Angstrom, so that the "% .8f" of Atom.__str__ is the rounding   *)
(* to an integer.  MECP.x: lengths in 0.1 Angstrom and gradients in        *)
(* 0.1 Hartree/Angstrom, so that STPMX is 1.  Energies are in Hartree.     *)
(***************************************************************************)
EXTENDS Integers, Sequences, FiniteSets, TLC

VARIABLES
    impl,        \* which program runs: "mecpro", "easymecp", "mecpsh", or a harness
    pc,          \* position of the driver
    max_steps,   \* genopts['max_steps'] / self.max_steps
    start_step,  \* genopts['current_step'] (mecpro)
    step,        \* mecpro: step;  easymecp, mecpsh: loop index i
    last_mol,    \* mecpro main: last_mol (components)
    cur_mol,     \* mecpro main: cur_mol (components)
    next_mol,    \* mecpro main: next_mol (components)
    cur_hess,    \* mecpro main: cur_hess
    raw_vector,  \* the step of the last update before the limits (vector, ChgeX)
    diff_grad,   \* the difference gradient of this step (diff_grad, PerpG)
    par_grad,    \* the parallel gradient of this step (par_grad, ParG)
    last_grad,   \* mecpro main: last_grad
    cur_grad,    \* mecpro main: cur_grad (effective gradient of this step)
    last_hess,   \* mecpro main: last_hess
    energies,    \* parsed energies of the two states (or "None")
    gradients,   \* parsed gradients / force rows of the two states (or "None")
    cutoffs,     \* convergence thresholds
    conv,        \* the five comparisons and the verdict of the last convergence test
    limits,      \* which of the two step limits fired in the last update
    ckpt,        \* mecpro: contents of <jobname>.next.mecp, or NoFile
    gprocess,    \* mecpro gaussian._gprocess: "None", "A" or "B"
    calls,       \* number of provider invocations so far, per state
    ProgFile,    \* easymecp: contents of ProgFile
    geom,        \* easymecp: contents of the file geom, or NoFile
    ReportFile,  \* easymecp, mecpsh: the keywords written to ReportFile, in order
    fault,       \* history: the first provider or numerical fault met by the run
    applied,     \* history: an optimiser step was computed in an iteration with a fault
    got,         \* history: what this iteration's job of each state gave
    signalled    \* mecpro: a signal was delivered (TERM, or a kill)

vars == <<impl, pc, max_steps, start_step, step, last_mol, cur_mol, next_mol,
          cur_hess, raw_vector, diff_grad, par_grad, last_grad, cur_grad, last_hess, energies,
          gradients, cutoffs, conv, limits, ckpt, gprocess, calls, ProgFile, geom,
          ReportFile, fault, applied, got, signalled>>

-----------------------------------------------------------------------------
(* Exact rational arithmetic standing for IEEE doubles.                     *)

\* F(e) with e evaluated once
With(e, F(_)) == CHOOSE r \in { F(x) : x \in {e} } : TRUE

\* F(x, y) with x and y evaluated once
With2(x, y, F(_, _)) == CHOOSE r \in { F(p[1], p[2]) : p \in {<<x, y>>} } : TRUE

NF == <<0, 0>>

IsNF(a) == a[2] = 0

Abs(n) == IF n < 0 THEN -n ELSE n

RECURSIVE GCD(_, _)
GCD(a, b) == IF b = 0 THEN a ELSE GCD(b, a % b)

\* n / d in lowest terms, d > 0
Rat(n, d) == With(GCD(Abs(n), d), LAMBDA g : <<n \div g, d \div g>>)

R(n) == <<n, 1>>

RNeg(x) == With(x, LAMBDA a : <<-a[1], a[2]>>)

AddV(a, b) ==
    IF IsNF(a) \/ IsNF(b) THEN NF
    ELSE With(GCD(a[2], b[2]), LAMBDA g :
            Rat(a[1] * (b[2] \div g) + b[1] * (a[2] \div g), (a[2] \div g) * b[2]))

RAdd(x, y) == With2(x, y, AddV)

RSub(x, y) == RAdd(x, RNeg(y))

MulV(a, b) ==
    IF IsNF(a) \/ IsNF(b) THEN NF
    ELSE With2(GCD(Abs(a[1]), b[2]), GCD(Abs(b[1]), a[2]), LAMBDA g1, g2 :
            <<(a[1] \div g1) * (b[1] \div g2), (a[2] \div g2) * (b[2] \div g1)>>)

RMul(x, y) == With2(x, y, MulV)

DivV(a, b) ==
    IF IsNF(a) \/ IsNF(b) \/ b[1] = 0 THEN NF
    ELSE MulV(a, IF b[1] > 0 THEN <<b[2], b[1]>> ELSE <<-b[2], -b[1]>>)

RDiv(x, y) == With2(x, y, DivV)

RAbs(x) == With(x, LAMBDA a : <<Abs(a[1]), a[2]>>)

LtV(a, b) ==
    /\ ~IsNF(a)
    /\ ~IsNF(b)
    /\ With(GCD(a[2], b[2]), LAMBDA g : a[1] * (b[2] \div g) < b[1] * (a[2] \div g))

RLt(x, y) == With2(x, y, LtV)

RGt(x, y) == RLt(y, x)

RIsZero(x) == With(x, LAMBDA a : ~IsNF(a) /\ a[1] = 0)

\* sqrt(q) < t for q >= 0
SqrtLt(q, t) == With(t, LAMBDA c : RLt(R(0), c) /\ RLt(q, RMul(c, c)))

\* the nearest integer, halves away from zero: a "%.0f" of the value
RRound(x) ==
    With(x, LAMBDA a :
        IF IsNF(a) THEN NF
        ELSE With((2 * Abs(a[1]) + a[2]) \div (2 * a[2]), LAMBDA m :
                R(IF a[1] < 0 THEN -m ELSE m)))

-----------------------------------------------------------------------------
(* Vectors and matrices over 1..Nx, held as tuples.                         *)

NAtoms == 1

Nx == 3 * NAtoms

Idx == 1 .. Nx

\* the vector <<F(1), ..., F(Nx)>>
RECURSIVE MkVec(_, _)
MkVec(F(_), n) == IF n = 0 THEN << >> ELSE Append(MkVec(F, n - 1), F(n))

Vec(F(_)) == MkVec(F, Nx)

RECURSIVE SumTo(_, _)
SumTo(f, n) == IF n = 0 THEN R(0) ELSE RAdd(SumTo(f, n - 1), f[n])

\* the sum of the components of a vector
VSum(t) == With(t, LAMBDA f : SumTo(f, Nx))

inner(u, v) == With2(u, v, LAMBDA a, b : VSum(Vec(LAMBDA i : RMul(a[i], b[i]))))

VSub(u, v) == With2(u, v, LAMBDA a, b : Vec(LAMBDA i : RSub(a[i], b[i])))

VAdd(u, v) == With2(u, v, LAMBDA a, b : Vec(LAMBDA i : RAdd(a[i], b[i])))

VScale(c, u) == With2(c, u, LAMBDA k, a : Vec(LAMBDA i : RMul(k, a[i])))

VNeg(u) == With(u, LAMBDA a : Vec(LAMBDA i : RNeg(a[i])))

VAbs(u) == With(u, LAMBDA a : Vec(LAMBDA i : RAbs(a[i])))

VHasNF(u) == With(u, LAMBDA a : \E i \in Idx : IsNF(a[i]))

\* numpy: row vector times matrix
VecMat(g, H) ==
    With2(g, H, LAMBDA a, M : Vec(LAMBDA j : VSum(Vec(LAMBDA i : RMul(a[i], M[i][j])))))

\* matrix times column vector
MatVec(H, g) ==
    With2(H, g, LAMBDA M, a : Vec(LAMBDA i : VSum(Vec(LAMBDA j : RMul(M[i][j], a[j])))))

\* a running maximum: keeps m unless x > m (the builtin max of Python 2 over
\* an array, and the Fortran loops with .gt.)
RECURSIVE MaxFrom(_, _, _)
MaxFrom(u, k, m) ==
    IF k > Nx THEN m
    ELSE With(IF RGt(u[k], m) THEN u[k] ELSE m, LAMBDA m2 : MaxFrom(u, k + 1, m2))

pymax(u) == With(u, LAMBDA a : MaxFrom(a, 2, a[1]))

\* numpy ndarray.max(): NaN if the array holds one
npmax(u) == With(u, LAMBDA a : IF VHasNF(a) THEN NF ELSE MaxFrom(a, 2, a[1]))

identity(c) == Vec(LAMBDA i : Vec(LAMBDA j : IF i = j THEN c ELSE R(0)))

zeros == Vec(LAMBDA i : R(0))

-----------------------------------------------------------------------------
(* mecpro: the optimiser of mecp.py.                                        *)

\* 1 Bohr in Angstrom
_bohr == <<529177, 1000000>>

\* effective_gradient with the projection on diff not divided by the squared
\* norm of diff
effective_gradient_unnormalised(E, G) ==
    With2(G[1], G[2], LAMBDA g1, g2 :
    With2(RSub(E[1], E[2]), VSub(g1, g2), LAMBDA energy_delta, diff :
    With(VSub(g1, VScale(inner(g1, diff), diff)), LAMBDA par :
    With(VScale(energy_delta, diff), LAMBDA perp :
        [diff |-> diff, par |-> par,
         effective |-> VAdd(VScale(R(140), perp), VScale(R(1), par))]))))

\* effective_gradient with the energy difference taken as E2 - E1
effective_gradient_swapped(E, G) ==
    With2(G[1], G[2], LAMBDA g1, g2 :
    With2(RSub(E[2], E[1]), VSub(g1, g2), LAMBDA energy_delta, diff :
    With(VSub(g1, VScale(RDiv(inner(g1, diff), inner(diff, diff)), diff)), LAMBDA par :
    With(VScale(energy_delta, diff), LAMBDA perp :
        [diff |-> diff, par |-> par,
         effective |-> VAdd(VScale(R(140), perp), VScale(R(1), par))]))))

effective_gradient(E, G) ==
    With2(G[1], G[2], LAMBDA g1, g2 :
    With2(RSub(E[1], E[2]), VSub(g1, g2), LAMBDA energy_delta, diff :
    \* (inner(g1, diff) / normdiff) * (diff / normdiff), normdiff^2 = inner(diff, diff)
    With(VSub(g1, VScale(RDiv(inner(g1, diff), inner(diff, diff)), diff)), LAMBDA par :
    With(VScale(energy_delta, diff), LAMBDA perp :
        [diff |-> diff, par |-> par,
         effective |-> VAdd(VScale(R(140), perp), VScale(R(1), par))]))))

\* limit_step with the second rule halving the step instead of scaling it to
\* the bound
limit_step_halved(vec, stpmax, stpmax_loose) ==
    With(vec, LAMBDA vector :
    With2(inner(vector, vector), npmax(VAbs(vector)), LAMBDA stpl2, mc :
    With(RGt(stpl2, RMul(stpmax_loose, stpmax_loose)), LAMBDA first :
    With(RGt(mc, stpmax), LAMBDA second :
        [vector |-> IF second THEN Vec(LAMBDA i : RDiv(vector[i], R(2)))
                    ELSE vector,
         norm2 |-> stpl2, first |-> first, second |-> second]))))

\* limit_step with the first test made against stpmax / len(g2)
limit_step_tight(vec, stpmax, stpmax_loose) ==
    With(vec, LAMBDA vector :
    With2(RDiv(stpmax, R(Nx)), inner(vector, vector), LAMBDA tight, stpl2 :
    With(npmax(VAbs(vector)), LAMBDA mc :
    With(RGt(stpl2, RMul(tight, tight)), LAMBDA first :
    With(IF first
         THEN RGt(RMul(RMul(mc, mc), RMul(tight, tight)),
                  RMul(RMul(stpmax, stpmax), stpl2))
         ELSE RGt(mc, stpmax), LAMBDA second :
        [vector |-> IF second THEN Vec(LAMBDA i : RMul(RDiv(vector[i], mc), stpmax))
                    ELSE IF first THEN Vec(LAMBDA i : NF)
                    ELSE vector,
         norm2 |-> IF first THEN RMul(RDiv(stpl2, stpl2), RMul(tight, tight))
                   ELSE stpl2,
         first |-> first, second |-> second])))))

\* limit_step with the first test made against stpmax * sqrt(len(g2))
limit_step_sqrt(vec, stpmax, stpmax_loose) ==
    With(vec, LAMBDA vector :
    With2(inner(vector, vector), npmax(VAbs(vector)), LAMBDA stpl2, mc :
    With(RGt(stpl2, RMul(RMul(stpmax, stpmax), R(Nx))), LAMBDA first :
    With(RGt(mc, stpmax), LAMBDA second :
        [vector |-> IF second THEN Vec(LAMBDA i : RMul(RDiv(vector[i], mc), stpmax))
                    ELSE vector,
         norm2 |-> IF first THEN RMul(RMul(stpmax, stpmax), R(Nx)) ELSE stpl2,
         first |-> first, second |-> second]))))

\* lines 283-291 of update_coords.  After the first rescaling the vector is
\* vector * stpmax_loose / stpl and its largest component max_comp * stpmax_loose / stpl,
\* so the second test is max_comp^2 * stpmax_loose^2 > stpmax^2 * stpl^2 and the
\* second rescaling gives vector / max_comp * stpmax.  With three components or
\* more the second limit fires whenever the first does (max_comp^2 >= stpl^2 / Nx),
\* so the vector rescaled by the first limit alone, which is irrational, never
\* leaves the function; it is written as non-finite.
limit_step(vec, stpmax, stpmax_loose) ==
    With(vec, LAMBDA vector :
    With2(inner(vector, vector), npmax(VAbs(vector)), LAMBDA stpl2, mc :
    With(RGt(stpl2, RMul(stpmax_loose, stpmax_loose)), LAMBDA first :
    With(IF first
         THEN RGt(RMul(RMul(mc, mc), RMul(stpmax_loose, stpmax_loose)),
                  RMul(RMul(stpmax, stpmax), stpl2))
         ELSE RGt(mc, stpmax), LAMBDA second :
        [vector |-> IF second THEN Vec(LAMBDA i : RMul(RDiv(vector[i], mc), stpmax))
                    ELSE IF first THEN Vec(LAMBDA i : NF)
                    ELSE vector,
         \* the squared norm of vector / stpl * stpmax_loose, or of vector
         norm2 |-> IF first THEN RMul(RDiv(stpl2, stpl2), RMul(stpmax_loose, stpmax_loose))
                   ELSE stpl2,
         first |-> first, second |-> second]))))

\* bfgs_update with v = 2 * outer(lcollapse, dcoords) / denom
bfgs_update_outer(c1, c2, g1, g2, hess) ==
    With(hess, LAMBDA hessian_in :
    With2(VSub(g2, g1), VSub(c2, c1), LAMBDA dgrad, dcoords :
    With(VecMat(dgrad, hessian_in), LAMBDA lcollapse :
    With2(inner(dgrad, lcollapse), inner(dgrad, dcoords), LAMBDA collapse, denom :
    With(RDiv(RAdd(denom, collapse), RMul(denom, denom)), LAMBDA k :
        [denom |-> denom,
         hessian_out |-> Vec(LAMBDA i : Vec(LAMBDA j :
            RSub(RAdd(hessian_in[i][j], RMul(k, RMul(dcoords[i], dcoords[j]))),
                 RDiv(RMul(R(2), RMul(lcollapse[i], dcoords[j])), denom))))])))))

bfgs_update(c1, c2, g1, g2, hess) ==
    With(hess, LAMBDA hessian_in :
    With2(VSub(g2, g1), VSub(c2, c1), LAMBDA dgrad, dcoords :
    With(VecMat(dgrad, hessian_in), LAMBDA lcollapse :
    With2(inner(dgrad, lcollapse), inner(dgrad, dcoords), LAMBDA collapse, denom :
    With(RDiv(RAdd(denom, collapse), RMul(denom, denom)), LAMBDA k :
        [denom |-> denom,
         \* hessian_in + u - v,
         \* u = (denom + collapse) * outer(dcoords, dcoords) / (denom * denom),
         \* v = (outer(lcollapse, dcoords) + outer(dcoords, lcollapse)) / denom
         hessian_out |-> Vec(LAMBDA i : Vec(LAMBDA j :
            RSub(RAdd(hessian_in[i][j], RMul(k, RMul(dcoords[i], dcoords[j]))),
                 RDiv(RAdd(RMul(lcollapse[i], dcoords[j]),
                           RMul(dcoords[i], lcollapse[j])), denom))))])))))

\* update_coords without the short-circuit for the 0th step
update_coords_always(stp, stpmax, c1, c2, g1, g2, hessian_in) ==
    With(bfgs_update(c1, c2, g1, g2, hessian_in), LAMBDA upd :
        IF RIsZero(upd.denom)
        THEN [kind |-> "MECPException", mol |-> c2, hessian |-> hessian_in,
              raw |-> zeros, limits |-> <<FALSE, FALSE>>]
        ELSE With(VNeg(VecMat(g2, upd.hessian_out)), LAMBDA vec :
             With(limit_step(vec, stpmax, RMul(stpmax, R(Nx))), LAMBDA lim :
                [kind |-> "ok",
                 mol |-> VAdd(c2, lim.vector),
                 hessian |-> upd.hessian_out,
                 raw |-> vec,
                 limits |-> <<lim.first, lim.second>>])))

update_coords(stp, stpmax, c1, c2, g1, g2, hessian_in) ==
    With(IF stp = 0 THEN [denom |-> R(1), hessian_out |-> hessian_in]
         ELSE bfgs_update(c1, c2, g1, g2, hessian_in), LAMBDA upd :
        IF RIsZero(upd.denom)
        THEN [kind |-> "MECPException", mol |-> c2, hessian |-> hessian_in,
              raw |-> zeros, limits |-> <<FALSE, FALSE>>]
        ELSE With(VNeg(VecMat(g2, upd.hessian_out)), LAMBDA vec :
             With(limit_step(vec, stpmax, RMul(stpmax, R(Nx))), LAMBDA lim :
                [kind |-> "ok",
                 mol |-> VAdd(c2, lim.vector),
                 hessian |-> upd.hessian_out,
                 raw |-> vec,
                 limits |-> <<lim.first, lim.second>>])))

\* rms(x) < cutoff, rms(x) = sqrt(mean(square(x)))
rms_lt(x, cutoff) == SqrtLt(RDiv(inner(x, x), R(Nx)), cutoff)

\* test_convergence with the first comparison made non-strict
test_convergence_le(mol0, mol1, E, eff_grad, cut) ==
    With(VSub(mol0, mol1), LAMBDA dcoords :
    With(<< ~RGt(pymax(VAbs(eff_grad)), cut.max_grad),
            rms_lt(eff_grad, cut.rms_grad),
            RLt(pymax(VAbs(dcoords)), cut.max_chg),
            rms_lt(dcoords, cut.rms_chg),
            RLt(RAbs(RSub(E[2], E[1])), cut.energy_diff) >>, LAMBDA c :
        [flags |-> c, all |-> \A n \in 1 .. 5 : c[n]]))

\* test_convergence with the second geometry itself taken for the displacement
test_convergence_absolute(mol0, mol1, E, eff_grad, cut) ==
    With(mol1, LAMBDA dcoords :
    With(<< RLt(pymax(VAbs(eff_grad)), cut.max_grad),
            rms_lt(eff_grad, cut.rms_grad),
            RLt(pymax(VAbs(dcoords)), cut.max_chg),
            rms_lt(dcoords, cut.rms_chg),
            RLt(RAbs(RSub(E[2], E[1])), cut.energy_diff) >>, LAMBDA c :
        [flags |-> c, all |-> \A n \in 1 .. 5 : c[n]]))

test_convergence(mol0, mol1, E, eff_grad, cut) ==
    With(VSub(mol0, mol1), LAMBDA dcoords :
    \* max_grad, eff_grad_rms, max_delta, dcoords_rms, energy_diff against the cutoffs
    With(<< RLt(pymax(VAbs(eff_grad)), cut.max_grad),
            rms_lt(eff_grad, cut.rms_grad),
            RLt(pymax(VAbs(dcoords)), cut.max_chg),
            rms_lt(dcoords, cut.rms_chg),
            RLt(RAbs(RSub(E[2], E[1])), cut.energy_diff) >>, LAMBDA c :
        [flags |-> c, all |-> \A n \in 1 .. 5 : c[n]]))

-----------------------------------------------------------------------------
(* MECP.x: the Fortran program embedded in easymecp.py.                     *)

facPP == R(140)

facP == R(1)

STPMX == R(1)

Effective_Gradient(Ea, Eb, Ga0, Gb0) ==
    With2(Ga0, Gb0, LAMBDA Ga, Gb :
    With(VSub(Ga, Gb), LAMBDA PerpG :
    \* PerpG(i) / npg * pp with pp = sum(Ga * PerpG) / npg, npg^2 = sum(PerpG^2)
    With(VSub(Ga, VScale(RDiv(inner(Ga, PerpG), inner(PerpG, PerpG)), PerpG)), LAMBDA ParG :
        [PerpG |-> PerpG, ParG |-> ParG,
         G |-> VAdd(VScale(RMul(RSub(Ea, Eb), facPP), PerpG), VScale(facP, ParG))])))

\* a running maximum started at 0.d0 and raised by .gt.
fmax(u) == With(u, LAMBDA a : MaxFrom(a, 1, R(0)))

\* lines 1566-1584 of UpdateX, rewritten as limit_step is
LimitChgeX(Chge, stpmax) ==
    With(Chge, LAMBDA ChgeX :
    With2(inner(ChgeX, ChgeX), fmax(VAbs(ChgeX)), LAMBDA fac, lgstst :
    With(RGt(fac, RMul(stpmax, stpmax)), LAMBDA first :
    With(IF first
         THEN RGt(RMul(RMul(lgstst, lgstst), RMul(stpmax, stpmax)),
                  RMul(RMul(STPMX, STPMX), fac))
         ELSE RGt(lgstst, STPMX), LAMBDA second :
        [ChgeX |-> IF second THEN Vec(LAMBDA i : RMul(RDiv(ChgeX[i], lgstst), STPMX))
                   ELSE IF first THEN Vec(LAMBDA i : NF)
                   ELSE ChgeX,
         \* the squared norm of ChgeX / stpl * stpmax, or of ChgeX
         norm2 |-> IF first THEN RMul(RDiv(fac, fac), RMul(stpmax, stpmax)) ELSE fac,
         first |-> first, second |-> second]))))

\* the BFGS branch of UpdateX: the new inverse Hessian
\* UpdateHI without the term fae * w(i) * w(j)
UpdateHI_dfp(X_1, X_2, G_1, G_2, HI) ==
    With(HI, LAMBDA HI_1 :
    With2(VSub(G_2, G_1), VSub(X_2, X_1), LAMBDA DelG, DelX :
    With(MatVec(HI_1, DelG), LAMBDA HDelG :
    With2(inner(DelG, DelX), inner(DelG, HDelG), LAMBDA fac0, fae :
    With2(RDiv(R(1), fac0), RDiv(R(1), fae), LAMBDA fac, fad :
        Vec(LAMBDA i : Vec(LAMBDA j :
            RSub(RAdd(HI_1[i][j], RMul(RMul(fac, DelX[i]), DelX[j])),
                 RMul(RMul(fad, HDelG[i]), HDelG[j])))))))))

UpdateHI(X_1, X_2, G_1, G_2, HI) ==
    With(HI, LAMBDA HI_1 :
    With2(VSub(G_2, G_1), VSub(X_2, X_1), LAMBDA DelG, DelX :
    With(MatVec(HI_1, DelG), LAMBDA HDelG :
    With2(inner(DelG, DelX), inner(DelG, HDelG), LAMBDA fac0, fae :
    With2(RDiv(R(1), fac0), RDiv(R(1), fae), LAMBDA fac, fad :
    With(VSub(VScale(fac, DelX), VScale(fad, HDelG)), LAMBDA w :
        Vec(LAMBDA i : Vec(LAMBDA j :
            RAdd(RSub(RAdd(HI_1[i][j], RMul(RMul(fac, DelX[i]), DelX[j])),
                      RMul(RMul(fad, HDelG[i]), HDelG[j])),
                 RMul(RMul(fae, w[i]), w[j]))))))))))

UpdateX(Nstep, FFile, X_1, X_2, G_1, G_2, HI_1) ==
    With(IF Nstep = 0 /\ FFile = 0 THEN HI_1 ELSE UpdateHI(X_1, X_2, G_1, G_2, HI_1),
         LAMBDA HI_2 :
    With(IF Nstep = 0 /\ FFile = 0 THEN VScale(RNeg(<<7, 10>>), G_2)
         ELSE VNeg(MatVec(HI_2, G_2)), LAMBDA ChgeX :
    With(LimitChgeX(ChgeX, RMul(STPMX, R(Nx))), LAMBDA lim :
        [X_3 |-> VAdd(X_2, lim.ChgeX), HI_2 |-> HI_2, raw |-> ChgeX,
         limits |-> <<lim.first, lim.second>>])))

TestConvergence(Ea, Eb, X_2, X_3, G, cut) ==
    With(VSub(X_3, X_2), LAMBDA DeltaX :
    \* GMax, GRMS, DXMax, DXRMS, DE against TGMax, TGRMS, TDXMax, TDXRMS, TDE
    With(<< RLt(fmax(VAbs(G)), cut.max_grad),
            SqrtLt(RDiv(inner(G, G), R(Nx)), cut.rms_grad),
            RLt(fmax(VAbs(DeltaX)), cut.max_chg),
            SqrtLt(RDiv(inner(DeltaX, DeltaX), R(Nx)), cut.rms_chg),
            RLt(RAbs(RSub(Ea, Eb)), cut.energy_diff) >>, LAMBDA PConv :
        [flags |-> PConv, all |-> \A n \in 1 .. 5 : PConv[n]]))

-----------------------------------------------------------------------------
(* Values of the variables a specification does not use.                    *)

\* a file that does not exist
NoFile == [exists |-> FALSE]

NoCheckpoint ==
    [exists |-> FALSE, complete |-> FALSE, geometry |-> zeros,
     hessian |-> identity(R(0)), gradient |-> zeros, current_step |-> 0]

NoConv == [flags |-> <<FALSE, FALSE, FALSE, FALSE, FALSE>>, all |-> FALSE]

NoLimits == <<FALSE, FALSE>>

NoCalls == [A |-> 0, B |-> 0]

\* no job of this iteration has ended yet
NoneYet == [A |-> "none", B |-> "none"]

\* the variables that hold the vectors of a step
StepVectors == <<raw_vector, diff_grad, par_grad>>

\* the first fault of a run: what it is, the iteration and the state (A, B) it
\* came with, and whether another fault followed it
NoFault == [kind |-> "none", at |-> 0, who |-> "none", more |-> FALSE]

\* the convergence thresholds of the input, in the units of the model
InputCutoffs ==
    [max_grad |-> <<1, 2>>, rms_grad |-> <<1, 2>>, max_chg |-> R(1),
     rms_chg |-> R(1), energy_diff |-> <<1, 200>>]

\* thresholds a user has raised for the gradient ([cutoffs] of a .mecp file,
\* TGMax and TGRMS of easymecp)
LooseCutoffs == [InputCutoffs EXCEPT !.max_grad = R(2), !.rms_grad = R(2)]

RunCutoffs == { InputCutoffs, LooseCutoffs }

-----------------------------------------------------------------------------
(* The convergence tests on their own: test_convergence of mecp.py and      *)
(* TestConvergence of MECP.x applied to inputs drawn from small sets.       *)

ConvVectors == { <<R(0), R(0), R(0)>>, <<R(1), R(0), R(0)>>,
                 <<R(-1), R(1), R(-1)>>, <<R(0), R(-2), R(0)>> }

ConvEnergies == { R(0), R(1), R(-2) }

ConvThresholds == { R(1), R(2) }

ConvInit ==
    /\ impl = "convergence"
    /\ pc = "input"
    /\ cur_mol = zeros
    /\ next_mol \in ConvVectors
    /\ cur_grad \in ConvVectors
    /\ energies \in { <<R(0), e>> : e \in ConvEnergies }
    /\ cutoffs \in [max_grad : ConvThresholds, rms_grad : ConvThresholds,
                    max_chg : ConvThresholds, rms_chg : ConvThresholds,
                    energy_diff : ConvThresholds]
    /\ conv = NoConv
    /\ max_steps = 0 /\ start_step = 0 /\ step = 0
    /\ last_mol = zeros /\ last_grad = zeros /\ last_hess = identity(<<7, 10>>)
    /\ gradients = "None" /\ limits = NoLimits /\ ckpt = NoCheckpoint
    /\ gprocess = "None" /\ calls = NoCalls /\ ProgFile = NoFile
    /\ geom = NoFile /\ ReportFile = << >> /\ fault = NoFault
    /\ applied = FALSE /\ signalled = FALSE
    /\ cur_hess = identity(<<7, 10>>) /\ raw_vector = zeros /\ diff_grad = zeros
    /\ par_grad = zeros /\ got = NoneYet

ConvUnchanged ==
    UNCHANGED <<impl, max_steps, start_step, step, last_mol, cur_mol, next_mol,
                last_grad, cur_grad, last_hess, energies, gradients, cutoffs,
                limits, ckpt, gprocess, calls, ProgFile, geom, ReportFile,
                fault, applied, signalled, cur_hess, StepVectors, got>>

\* test_convergence(logfile, (cur_mol, next_mol), energies, cur_grad, cutoffs)
ConvTestPython ==
    /\ impl = "convergence" /\ pc = "input"
    /\ conv' = test_convergence(cur_mol, next_mol, energies, cur_grad, cutoffs)
    /\ pc' = "tested"
    /\ ConvUnchanged

\* CALL TestConvergence(Nx,Natom,Nstep,AtNum,Ea_2,Eb_2,X_2,X_3,ParG,PerpG,G_2,Conv)
ConvTestFortran ==
    /\ impl = "convergence" /\ pc = "input"
    /\ conv' = TestConvergence(energies[1], energies[2], cur_mol, next_mol,
                               cur_grad, cutoffs)
    /\ pc' = "tested"
    /\ ConvUnchanged

ConvNext == ConvTestPython \/ ConvTestFortran

SpecConv == ConvInit /\ [][ConvNext]_vars

\* the five metrics of the convergence test, from their definitions
LargestAbs(v) == CHOOSE m \in { RAbs(v[i]) : i \in Idx } :
                    \A i \in Idx : ~RLt(m, RAbs(v[i]))

MeanSquare(v) == RDiv(inner(v, v), R(Nx))

ConvDisplacement == VSub(next_mol, cur_mol)

\* metric k is strictly below its threshold
MetricBelow(k) ==
    CASE k = 1 -> RLt(LargestAbs(cur_grad), cutoffs.max_grad)
      [] k = 2 -> RLt(MeanSquare(cur_grad), RMul(cutoffs.rms_grad, cutoffs.rms_grad))
      [] k = 3 -> RLt(LargestAbs(ConvDisplacement), cutoffs.max_chg)
      [] k = 4 -> RLt(MeanSquare(ConvDisplacement), RMul(cutoffs.rms_chg, cutoffs.rms_chg))
      [] k = 5 -> RLt(RAbs(RSub(energies[1], energies[2])), cutoffs.energy_diff)

\* metric k is exactly at its threshold
MetricAt(k) ==
    CASE k = 1 -> LargestAbs(cur_grad) = cutoffs.max_grad
      [] k = 2 -> MeanSquare(cur_grad) = RMul(cutoffs.rms_grad, cutoffs.rms_grad)
      [] k = 3 -> LargestAbs(ConvDisplacement) = cutoffs.max_chg
      [] k = 4 -> MeanSquare(ConvDisplacement) = RMul(cutoffs.rms_chg, cutoffs.rms_chg)
      [] k = 5 -> RAbs(RSub(energies[1], energies[2])) = cutoffs.energy_diff

\* C1: the convergence test answers "converged" exactly when each of the five
\* metrics (largest and RMS effective-gradient component, largest and RMS
\* displacement component, energy gap) is strictly below its threshold; with a
\* metric exactly at its threshold the answer is "not converged".
C1_StrictConvergence ==
    (impl = "convergence" /\ pc = "tested") =>
        /\ conv.all <=> \A k \in 1 .. 5 : MetricBelow(k)
        /\ \A k \in 1 .. 5 : conv.flags[k] <=> MetricBelow(k)
        /\ \A k \in 1 .. 5 : MetricAt(k) => ~conv.all

\* a test with one metric exactly at its threshold and the other four below
C1_Witness ==
    /\ impl = "convergence" /\ pc = "tested"
    /\ \E k \in 1 .. 5 :
             /\ MetricAt(k)
             /\ \A j \in (1 .. 5) \ {k} : MetricBelow(j)
       /\ ~conv.all

-----------------------------------------------------------------------------
(* The external provider (Gaussian): an exit status and a log file.         *)
(* A log is a sequence of lines; a line is a record whose field t tells     *)
(* what the parsers look for in it.                                         *)

MaxSteps == 2

ProviderEnergies == { R(0), <<1, 140>> }

ProviderGradients ==
    [A |-> { <<R(1), R(0), R(0)>>, <<R(1), R(1), R(0)>> },
     B |-> { <<R(0), R(0), R(0)>>, <<R(1), R(0), R(0)>> }]

Statuses == { 0, 1 }

LogKinds == { "good", "noenergy", "noforces", "truncated", "shortrow", "wordrow",
              "convfail" }

TXT == [t |-> "text", e |-> R(0), f |-> zeros]

CF == [t |-> "Convergence failure", e |-> R(0), f |-> zeros]

HDR == [t |-> "Center Atomic Forces", e |-> R(0), f |-> zeros]

SCF(e) == [t |-> "SCF Done:", e |-> e, f |-> zeros]

ROW(f) == [t |-> "row", e |-> R(0), f |-> f]

\* a line of five words or more of which the third is not a number, such as
\* " Cartesian Forces:  Max ...  RMS ..."
WORDS == [t |-> "words", e |-> R(0), f |-> zeros]

\* the forces (Hartree/Bohr) a log prints for the gradient g (Hartree/Angstrom)
Forces(g) == Vec(LAMBDA i : RMul(RNeg(g[i]), _bohr))

\* the log of a job of the given kind, with energy e and gradient g
Log(kind, e, g) ==
    CASE kind = "good" -> <<TXT, SCF(e), HDR, TXT, TXT, ROW(Forces(g)), TXT>>
      [] kind = "noenergy" -> <<TXT, HDR, TXT, TXT, ROW(Forces(g)), TXT>>
      [] kind = "noforces" -> <<TXT, SCF(e), TXT>>
      [] kind = "truncated" -> <<TXT, SCF(e), HDR, TXT, TXT>>
      [] kind = "shortrow" -> <<TXT, SCF(e), HDR, TXT, TXT, TXT, TXT>>
      [] kind = "wordrow" -> <<TXT, SCF(e), HDR, TXT, TXT, WORDS, TXT>>
      [] kind = "convfail" -> <<TXT, SCF(e), HDR, TXT, TXT, ROW(Forces(g)), CF, TXT>>

NoEnergy == [some |-> FALSE, v |-> R(0)]

\* the natoms lines from line i on: map(float, fields[2:5]) of each is added
\* to the gradient; a short line adds nothing
RECURSIVE row_floats(_, _, _, _)
row_floats(log, i, n, gradient) ==
    IF n = 0 THEN [kind |-> "ok", gradient |-> gradient]
    ELSE IF i > Len(log) THEN [kind |-> "MECPException", gradient |-> gradient]
    ELSE IF log[i].t = "words" THEN [kind |-> "ValueError", gradient |-> gradient]
    ELSE row_floats(log, i + 1, n - 1,
                    IF log[i].t = "row" THEN gradient \o log[i].f ELSE gradient)

RECURSIVE extract_scan(_, _, _, _)
extract_scan(log, i, energy, gradient) ==
    IF i > Len(log)
    THEN [kind |-> "eof", energy |-> energy, gradient |-> gradient]
    ELSE IF log[i].t = "Convergence failure"
    THEN [kind |-> "MECPException", energy |-> energy, gradient |-> gradient]
    ELSE IF log[i].t = "SCF Done:"
    THEN extract_scan(log, i + 1, [some |-> TRUE, v |-> log[i].e], gradient)
    ELSE IF log[i].t = "Center Atomic Forces"
    THEN IF i + 2 > Len(log)
         THEN [kind |-> "MECPException", energy |-> energy, gradient |-> gradient]
         ELSE With(row_floats(log, i + 3, NAtoms, gradient), LAMBDA rows :
                 IF rows.kind # "ok"
                 THEN [kind |-> rows.kind, energy |-> energy, gradient |-> gradient]
                 ELSE extract_scan(log, i + 3 + NAtoms, energy, rows.gradient))
    ELSE extract_scan(log, i + 1, energy, gradient)

extract_data(log) ==
    With(extract_scan(log, 1, NoEnergy, << >>), LAMBDA s :
        IF s.kind # "eof" THEN [kind |-> s.kind, energy |-> R(0), gradient |-> zeros]
        ELSE IF ~s.energy.some \/ Len(s.gradient) # NAtoms * 3
        THEN [kind |-> "MECPException", energy |-> R(0), gradient |-> zeros]
        ELSE [kind |-> "ok", energy |-> s.energy.v,
              gradient |-> Vec(LAMBDA i : RDiv(RNeg(s.gradient[i]), _bohr))])

\* what is wrong with a log, read off its lines
HasLine(log, t) == \E i \in 1 .. Len(log) : log[i].t = t

CountLines(log, t) == Cardinality({ i \in 1 .. Len(log) : log[i].t = t })

LogFault(log) ==
    IF HasLine(log, "Convergence failure") THEN "convfail"
    ELSE IF ~HasLine(log, "SCF Done:") THEN "noenergy"
    ELSE IF ~HasLine(log, "Center Atomic Forces") THEN "noforces"
    ELSE IF CountLines(log, "row") < NAtoms THEN "fewrows"
    ELSE "none"

\* what a job gave: "ok" when it exited with 0 and its log is complete
Outcome(status, log) ==
    IF status = 0 /\ LogFault(log) = "none" THEN "ok" ELSE "failed"

\* the first fault of a run is the one remembered
NoteFault(kind, at, who) ==
    IF kind = "none" THEN fault
    ELSE IF fault.kind = "none"
    THEN [kind |-> kind, at |-> at, who |-> who, more |-> FALSE]
    ELSE [fault EXCEPT !.more = TRUE]

Terminal == { "Converged", "Failed", "MaxStepsReached", "Cancelled", "Crashed" }

-----------------------------------------------------------------------------
(* mecpro: main of mecp.py, from the entry of the optimisation loop.        *)
(* pre_opt is 'none'.                                                       *)

\* genopts['max_stepsize'], in the units of the geometry
max_stepsize == R(1)

\* Atom.__str__: each coordinate is written with "% .8f"
atom_str(x) == RRound(x)

\* str() of a float keeps 12 significant digits, more than the integers of
\* the model can hold; the gradient and Hessian entries are taken to be read
\* back as they were
float_str(x) == x

\* _writehessian writes the lower triangle, _parsehessian mirrors it
hessian_io(H) ==
    Vec(LAMBDA i : Vec(LAMBDA j :
        IF j <= i THEN float_str(H[i][j]) ELSE float_str(H[j][i])))

\* the file save_state writes, as mecpinput.read gives it back
save_state(mol, hess, grad, stp) ==
    [exists |-> TRUE, complete |-> TRUE,
     geometry |-> Vec(LAMBDA i : atom_str(mol[i])),
     hessian |-> hessian_io(hess),
     gradient |-> Vec(LAMBDA i : float_str(grad[i])),
     current_step |-> stp]

\* the file right after open(file, 'w') of mecpinput.write: it is there and
\* it is empty, no section has been written yet
truncated == [NoCheckpoint EXCEPT !.exists = TRUE]

\* the state main builds from a checkpoint (resume branch)
resume(file) ==
    With(update_coords(0, max_stepsize, file.geometry, file.geometry,
                       file.gradient, file.gradient, file.hessian), LAMBDA upd :
        [last_mol |-> file.geometry, cur_mol |-> upd.mol, cur_hess |-> upd.hessian,
         vector |-> upd.raw,
         last_grad |-> file.gradient, last_hess |-> file.hessian,
         step |-> file.current_step])

MecproVars == <<max_steps, start_step, step, last_mol, cur_mol, next_mol, cur_hess,
                last_grad, cur_grad, last_hess, energies, gradients, cutoffs, conv,
                limits, ckpt, gprocess, calls, fault, applied, signalled>>

OtherFiles == <<ProgFile, geom, ReportFile>>

MecproInit ==
    /\ impl = "mecpro"
    /\ pc = "run_A"
    /\ max_steps \in 1 .. MaxSteps
    /\ start_step = 0 /\ step = 0
    /\ last_mol = zeros /\ cur_mol = zeros /\ next_mol = zeros
    /\ last_grad = zeros /\ cur_grad = zeros
    /\ last_hess = identity(<<7, 10>>)
    /\ energies = <<R(0), R(0)>> /\ gradients = <<zeros, zeros>>
    /\ cutoffs \in RunCutoffs
    /\ conv = NoConv /\ limits = NoLimits
    /\ ckpt = NoCheckpoint /\ gprocess = "None" /\ calls = NoCalls
    /\ ProgFile = NoFile /\ geom = NoFile /\ ReportFile = << >>
    /\ fault = NoFault /\ applied = FALSE /\ signalled = FALSE
    /\ cur_hess = identity(<<7, 10>>) /\ raw_vector = zeros /\ diff_grad = zeros
    /\ par_grad = zeros /\ got = NoneYet

\* gaussian.run_g09 up to the start of the child process
run_g09_start(X) ==
    /\ impl = "mecpro" /\ pc = "run_" \o X
    /\ gprocess' = X
    /\ calls' = [calls EXCEPT ![X] = @ + 1]
    /\ pc' = "wait_" \o X
    /\ UNCHANGED <<impl, max_steps, start_step, step, last_mol, cur_mol, next_mol,
                   last_grad, cur_grad, last_hess, energies, gradients, cutoffs,
                   conv, limits, ckpt, fault, applied, signalled, OtherFiles,
                   cur_hess, StepVectors, got>>

\* the child ends: run_g09 returns and call_gaussian checks the status and
\* extracts the data of state X (1 for A, 2 for B)
call_gaussian_done(X, n, status, log) ==
    /\ impl = "mecpro" /\ pc = "wait_" \o X
    /\ \E r \in { extract_data(log) } :
           /\ gprocess' = "None"
           /\ fault' = NoteFault(IF status # 0 THEN "exit" ELSE LogFault(log), step, X)
           /\ got' = [got EXCEPT ![X] = Outcome(status, log)]
           /\ IF status # 0 \/ r.kind = "MECPException"
              THEN pc' = "Failed" /\ UNCHANGED <<energies, gradients>>
              ELSE IF r.kind = "ValueError"
              THEN pc' = "Crashed" /\ UNCHANGED <<energies, gradients>>
              ELSE /\ pc' = IF X = "A" THEN "run_B" ELSE "step"
                   /\ energies' = [energies EXCEPT ![n] = r.energy]
                   /\ gradients' = [gradients EXCEPT ![n] = r.gradient]
           /\ UNCHANGED <<impl, max_steps, start_step, step, last_mol, cur_mol, next_mol,
                          last_grad, cur_grad, last_hess, cutoffs, conv, limits, ckpt,
                          calls, applied, signalled, OtherFiles, cur_hess, StepVectors>>

call_gaussian(X, n) ==
    \E status \in Statuses, kind \in LogKinds, e \in ProviderEnergies,
       g \in ProviderGradients[X] :
        \E log \in { Log(kind, e, g) } : call_gaussian_done(X, n, status, log)

\* the numerical fault of the step about to be computed, if any
StepFault(gA, gB, first, dgrad, dcoords) ==
    IF gA = gB THEN "degenerate"
    ELSE IF ~first /\ RIsZero(inner(dgrad, dcoords)) THEN "stationary"
    ELSE "none"

\* the rest of the loop body: effective gradient, update, convergence test,
\* hand-over, save_state, and the test of the while loop
\* one pass through the body of the loop of main after call_gaussian.  With
\* killed the process dies inside mecpinput.write of save_state, after the
\* file has been opened for writing and before its first section is written.
main_iteration(killed) ==
    /\ impl = "mecpro" /\ pc = "step"
    /\ \E eg \in { effective_gradient(energies, gradients) } :
       \E upd \in { update_coords(step, max_stepsize, last_mol, cur_mol, last_grad,
                                   eg.effective, last_hess) } :
       \E tc \in { test_convergence(cur_mol, upd.mol, energies, eg.effective, cutoffs) } :
       \E f \in { NoteFault(StepFault(gradients[1], gradients[2], step = 0,
                                      VSub(eg.effective, last_grad),
                                      VSub(cur_mol, last_mol)), step, "none") } :
           /\ cur_grad' = eg.effective
           /\ diff_grad' = eg.diff
           /\ par_grad' = eg.par
           /\ fault' = f
           /\ killed => (upd.kind # "MECPException" /\ ~tc.all)
           /\ IF upd.kind = "MECPException"
              THEN /\ pc' = "Failed"
                   /\ UNCHANGED <<step, last_mol, cur_mol, next_mol, last_grad, last_hess,
                                  conv, limits, ckpt, applied, cur_hess, raw_vector, got>>
              ELSE /\ next_mol' = upd.mol
                   /\ cur_hess' = upd.hessian
                   /\ raw_vector' = upd.raw
                   /\ limits' = upd.limits
                   /\ conv' = tc
                   /\ applied' = (applied \/ f.kind # "none")
                   /\ IF tc.all
                      THEN /\ pc' = "Converged"
                           /\ UNCHANGED <<step, last_mol, cur_mol, last_grad, last_hess, ckpt,
                                          got>>
                      ELSE /\ got' = NoneYet
                           /\ last_mol' = cur_mol
                           /\ cur_mol' = upd.mol
                           /\ last_grad' = eg.effective
                           /\ last_hess' = upd.hessian
                           /\ step' = step + 1
                           /\ ckpt' = IF killed THEN truncated
                                      ELSE save_state(cur_mol, upd.hessian, eg.effective,
                                                      step + 1)
                           /\ pc' = IF killed THEN "Crashed"
                                    ELSE IF step + 1 < start_step + max_steps
                                    THEN "run_A" ELSE "MaxStepsReached"
           /\ signalled' = (signalled \/ killed)
           /\ UNCHANGED <<impl, max_steps, start_step, energies, gradients, cutoffs,
                          gprocess, calls, OtherFiles>>

main_step == main_iteration(FALSE)

\* the process is killed while save_state writes the checkpoint
save_state_killed == main_iteration(TRUE)

\* the handler of SIGTERM: gaussian.terminate(), the log lines, and
\* save_state(jobname + '.next'), which lacks the argument step and raises
\* TypeError; sys.exit(-2) is not reached and nothing in main catches the error
cleanup ==
    /\ impl = "mecpro"
    /\ pc \in { "run_A", "wait_A", "run_B", "wait_B", "step" }
    /\ signalled' = TRUE
    /\ pc' = "Crashed"
    /\ UNCHANGED <<impl, max_steps, start_step, step, last_mol, cur_mol, next_mol,
                   last_grad, cur_grad, last_hess, energies, gradients, cutoffs,
                   conv, limits, ckpt, gprocess, calls, fault, applied, OtherFiles,
                   cur_hess, StepVectors, got>>

\* a new process started on the last checkpoint
main_resume ==
    /\ impl = "mecpro" /\ pc \in Terminal
    /\ ckpt.exists /\ ckpt.complete
    /\ ckpt.current_step + max_steps <= MaxSteps
    /\ \E st \in { resume(ckpt) } :
           /\ pc' = "run_A"
           /\ start_step' = st.step /\ step' = st.step
           /\ last_mol' = st.last_mol /\ cur_mol' = st.cur_mol
           /\ last_grad' = st.last_grad /\ last_hess' = st.last_hess
           /\ next_mol' = zeros /\ cur_grad' = zeros
           /\ cur_hess' = st.cur_hess /\ raw_vector' = st.vector
           /\ diff_grad' = zeros /\ par_grad' = zeros /\ got' = NoneYet
           /\ energies' = <<R(0), R(0)>> /\ gradients' = <<zeros, zeros>>
           /\ conv' = NoConv /\ limits' = NoLimits
           /\ gprocess' = "None" /\ calls' = NoCalls
           /\ fault' = NoFault /\ applied' = FALSE /\ signalled' = FALSE
           /\ UNCHANGED <<impl, max_steps, cutoffs, ckpt, OtherFiles>>

MecproNext ==
    \/ run_g09_start("A")
    \/ run_g09_start("B")
    \/ call_gaussian("A", 1)
    \/ call_gaussian("B", 2)
    \/ main_step
    \/ save_state_killed
    \/ cleanup
    \/ main_resume

-----------------------------------------------------------------------------
(* easymecp: MECPCalculation.run of easymecp.py and the program MECP.x.     *)
(* energies[n] is energy_a / energy_b, a float or None; gradients[n] is     *)
(* gradients_a / gradients_b, a list of rows or None.  A row is the         *)
(* line.split()[1:5] of a line: its number of fields, whether they read as  *)
(* numbers, and the three forces among them.                                *)

None == [some |-> FALSE, v |-> R(0)]

NoRows == [some |-> FALSE, rows |-> << >>]

NoGeom == [exists |-> FALSE, X |-> zeros]

\* line.split()[1:5]
row_of(line) ==
    [fields |-> IF line.t \in { "row", "words" } THEN 4 ELSE 0,
     numeric |-> line.t = "row",
     f |-> line.f]

\* the rows of the natom lines from line i on
RECURSIVE table_rows(_, _, _, _)
table_rows(log, i, n, rows) ==
    IF n = 0 THEN [kind |-> "ok", rows |-> rows]
    ELSE IF i > Len(log) THEN [kind |-> "StopIteration", rows |-> rows]
    ELSE table_rows(log, i + 1, n - 1, Append(rows, row_of(log[i])))

RECURSIVE parse_scan(_, _, _, _)
parse_scan(log, i, energy, grads) ==
    IF i > Len(log)
    THEN [kind |-> "ok", energy |-> energy, gradients |-> grads]
    ELSE IF log[i].t = "Convergence failure"
    THEN [kind |-> "None", energy |-> None, gradients |-> NoRows]
    ELSE IF log[i].t = "Center Atomic Forces"
    THEN IF i + 2 > Len(log)
         THEN [kind |-> "StopIteration", energy |-> None, gradients |-> NoRows]
         ELSE With(table_rows(log, i + 3, NAtoms, << >>), LAMBDA t :
                 IF t.kind # "ok"
                 THEN [kind |-> t.kind, energy |-> None, gradients |-> NoRows]
                 ELSE parse_scan(log, i + 3 + NAtoms, energy,
                                 [some |-> TRUE, rows |-> t.rows]))
    ELSE IF log[i].t = "SCF Done:"
    THEN parse_scan(log, i + 1, [some |-> TRUE, v |-> log[i].e], grads)
    ELSE parse_scan(log, i + 1, energy, grads)

\* energy = None, gradients = [] and the scan of the lines
parse_energy_and_gradients(log) ==
    With(log, LAMBDA f : parse_scan(f, 1, None, [some |-> TRUE, rows |-> << >>]))

\* ReportFile holds, in order, the lines with a keyword ("ERROR",
\* "CONVERGED") and "report" for a report of MECP.x without one
report(file, msg) == Append(file, msg)

RECURSIVE check_from(_, _)
check_from(file, i) ==
    IF i > Len(file) THEN "None"
    ELSE IF file[i] = "CONVERGED" THEN "OK"
    ELSE IF file[i] = "ERROR" THEN "ERROR"
    ELSE check_from(file, i + 1)

check_current_iteration(file) == check_from(file, 1)

\* PROGFILE as prepare_workspace writes it, with what Initialize sets
InitialProgFile ==
    [exists |-> TRUE, Nstep |-> 0, FFile |-> 0, X_2 |-> zeros, X_1 |-> zeros,
     Ea |-> R(0), Eb |-> R(0), Ga |-> zeros, Gb |-> zeros, G |-> zeros,
     HI |-> identity(<<7, 10>>)]

\* PARAMETER (bohr=0.529177d0)
bohr == <<529177, 1000000>>

RECURSIVE Flatten(_)
Flatten(rows) == IF rows = << >> THEN << >> ELSE Head(rows).f \o Flatten(Tail(rows))

\* ReadInput on the file ab_initio that prepare_ab_initio wrote: error -5 when
\* a list-directed READ of a row meets a heading instead of numbers
ReadInput(energy_a, rows_a, energy_b, rows_b) ==
    IF \/ Len(rows_a) < NAtoms \/ Len(rows_b) < NAtoms
       \/ \E k \in 1 .. NAtoms : ~rows_a[k].numeric \/ ~rows_b[k].numeric
    THEN [error |-> -5, Ea |-> R(0), Eb |-> R(0), Ga |-> zeros, Gb |-> zeros]
    ELSE With2(Flatten(rows_a), Flatten(rows_b), LAMBDA fa, fb :
            [error |-> 0, Ea |-> energy_a, Eb |-> energy_b,
             Ga |-> Vec(LAMBDA i : RDiv(RNeg(fa[i]), bohr)),
             Gb |-> Vec(LAMBDA i : RDiv(RNeg(fb[i]), bohr))])

\* PROGRAM Optimizer after ReadProgFile and ReadInput.  The F20.12 and F14.8
\* fields of ProgFile and geom hold more digits than the numbers of the
\* model, which are taken to be read back as they were written.
Optimizer(P, inp, cut) ==
    With(Effective_Gradient(inp.Ea, inp.Eb, inp.Ga, inp.Gb), LAMBDA eg :
    With(UpdateX(P.Nstep, P.FFile, P.X_1, P.X_2, P.G, eg.G, P.HI), LAMBDA upd :
    With(TestConvergence(inp.Ea, inp.Eb, P.X_2, upd.X_3, eg.G, cut), LAMBDA tc :
        [Conv |-> tc, G_2 |-> eg.G, X_3 |-> upd.X_3, limits |-> upd.limits,
         PerpG |-> eg.PerpG, ParG |-> eg.ParG, ChgeX |-> upd.raw,
         stationary |-> ~(P.Nstep = 0 /\ P.FFile = 0)
                        /\ RIsZero(inner(VSub(eg.G, P.G), VSub(P.X_2, P.X_1))),
         \* WriteProgFile(Natom,Nx,AtNum,Nstep,X_2,X_3,IH_2,Ea_2,Eb_2,Ga_2,Gb_2,G_2)
         ProgFile |-> [exists |-> TRUE, Nstep |-> P.Nstep + 1, FFile |-> 1,
                       X_2 |-> upd.X_3, X_1 |-> P.X_2, Ea |-> inp.Ea, Eb |-> inp.Eb,
                       Ga |-> inp.Ga, Gb |-> inp.Gb, G |-> eg.G, HI |-> upd.HI_2]])))

MecproOnly == <<start_step, last_mol, cur_mol, cur_hess, last_grad, last_hess, ckpt,
                signalled>>

EmInit ==
    /\ impl = "easymecp"
    /\ pc = "run_A"
    /\ max_steps \in 1 .. MaxSteps
    /\ start_step = 0 /\ step = 0
    /\ last_mol = zeros /\ cur_mol = zeros /\ next_mol = zeros
    /\ last_grad = zeros /\ cur_grad = zeros
    /\ last_hess = identity(<<7, 10>>)
    /\ energies = <<None, None>> /\ gradients = <<NoRows, NoRows>>
    /\ cutoffs \in RunCutoffs
    /\ conv = NoConv /\ limits = NoLimits
    /\ ckpt = NoCheckpoint /\ gprocess = "None" /\ calls = NoCalls
    /\ ProgFile = InitialProgFile
    \* the input geometry may itself be the file named geom (the default)
    /\ geom \in { NoGeom, [exists |-> TRUE, X |-> zeros] }
    /\ ReportFile = << >>
    /\ fault = NoFault /\ applied = FALSE /\ signalled = FALSE
    /\ cur_hess = identity(<<7, 10>>) /\ raw_vector = zeros /\ diff_grad = zeros
    /\ par_grad = zeros /\ got = NoneYet

\* do_iteration: prepare_gaussian opens the geometry file (self.geom in the
\* first iteration, 'geom' afterwards), then run_gaussian starts the job
prepare_gaussian(d, X) ==
    /\ impl = d /\ pc = "run_" \o X
    /\ IF step > 0 /\ ~geom.exists
       THEN pc' = "Crashed" /\ UNCHANGED <<gprocess, calls>>
       ELSE /\ gprocess' = X
            /\ calls' = [calls EXCEPT ![X] = @ + 1]
            /\ pc' = "wait_" \o X
    /\ UNCHANGED <<impl, max_steps, step, next_mol, cur_grad, energies, gradients,
                   cutoffs, conv, limits, fault, applied, OtherFiles, MecproOnly,
                   StepVectors, got>>

\* the job ends: the rest of run_gaussian, then parse_energy_and_gradients
run_gaussian_done(X, n, status, log) ==
    /\ impl = "easymecp" /\ pc = "wait_" \o X
    /\ \E r \in { parse_energy_and_gradients(log) } :
           /\ gprocess' = "None"
           /\ fault' = NoteFault(IF status # 0 THEN "exit" ELSE LogFault(log), step, X)
           /\ got' = [got EXCEPT ![X] = Outcome(status, log)]
           /\ ReportFile' =
                 IF status # 0 /\ r.kind = "None" THEN report(report(ReportFile, "ERROR"), "ERROR")
                 ELSE IF status # 0 \/ r.kind = "None" THEN report(ReportFile, "ERROR")
                 ELSE ReportFile
           /\ IF r.kind = "StopIteration"
              THEN pc' = "Crashed" /\ UNCHANGED <<energies, gradients>>
              ELSE /\ pc' = IF X = "A" THEN "run_B" ELSE "mecp"
                   /\ energies' = [energies EXCEPT ![n] = r.energy]
                   /\ gradients' = [gradients EXCEPT ![n] = r.gradients]
           /\ UNCHANGED <<impl, max_steps, step, next_mol, cur_grad, cutoffs, conv, limits,
                          calls, applied, ProgFile, geom, MecproOnly, StepVectors>>

run_gaussian(X, n) ==
    \E status \in Statuses, kind \in LogKinds, e \in ProviderEnergies,
       g \in ProviderGradients[X] :
        \E log \in { Log(kind, e, g) } : run_gaussian_done(X, n, status, log)

\* a row that '{}  {}   {}   {}'.format(*l) cannot fill
ShortRow(g) == \E k \in 1 .. Len(g.rows) : g.rows[k].fields < 4

\* the rest of do_iteration: prepare_ab_initio, MECP.x, AddtoReportFile
run_mecp ==
    /\ impl = "easymecp" /\ pc = "mecp"
    /\ \E inp \in { ReadInput(energies[1].v, gradients[1].rows,
                              energies[2].v, gradients[2].rows) } :
       \E out \in { Optimizer(ProgFile, inp, cutoffs) } :
       \E f \in { NoteFault(IF inp.Ga = inp.Gb THEN "degenerate"
                            ELSE IF out.stationary THEN "stationary" ELSE "none",
                            step, "none") } :
           /\ IF ~(energies[1].some /\ energies[2].some
                   /\ gradients[1].some /\ gradients[2].some)
              THEN /\ pc' = "Failed"
                   /\ UNCHANGED <<next_mol, cur_grad, conv, limits, fault, applied,
                                  ProgFile, geom, ReportFile, StepVectors>>
              ELSE IF ShortRow(gradients[1]) \/ ShortRow(gradients[2])
              THEN /\ pc' = "Crashed"
                   /\ UNCHANGED <<next_mol, cur_grad, conv, limits, fault, applied,
                                  ProgFile, geom, ReportFile, StepVectors>>
              ELSE IF inp.error # 0
              THEN \* error_handling(-5): a message on the terminal and STOP
                   /\ pc' = "check"
                   /\ UNCHANGED <<next_mol, cur_grad, conv, limits, fault, applied,
                                  ProgFile, geom, ReportFile, StepVectors>>
              ELSE /\ pc' = "check"
                   /\ cur_grad' = out.G_2
                   /\ diff_grad' = out.PerpG
                   /\ par_grad' = out.ParG
                   /\ raw_vector' = out.ChgeX
                   /\ next_mol' = out.X_3
                   /\ conv' = out.Conv
                   /\ limits' = out.limits
                   /\ fault' = f
                   /\ applied' = (applied \/ f.kind # "none")
                   /\ ReportFile' = report(ReportFile,
                                           IF out.Conv.all THEN "CONVERGED" ELSE "report")
                   /\ IF out.Conv.all
                      THEN UNCHANGED <<ProgFile, geom>>
                      ELSE /\ geom' = [exists |-> TRUE, X |-> out.X_3]
                           /\ ProgFile' = out.ProgFile
           /\ UNCHANGED <<impl, max_steps, step, energies, gradients, cutoffs, gprocess,
                          calls, MecproOnly, got>>

\* run: check_current_iteration and the for loop
check_iteration ==
    /\ impl = "easymecp" /\ pc = "check"
    /\ \E check \in { check_current_iteration(ReportFile) } :
           /\ IF check = "OK" THEN pc' = "Converged" /\ UNCHANGED <<step, got>>
              ELSE IF check = "ERROR" THEN pc' = "Failed" /\ UNCHANGED <<step, got>>
              ELSE /\ step' = step + 1
                   /\ got' = NoneYet
                   /\ pc' = IF step + 1 < max_steps THEN "run_A" ELSE "MaxStepsReached"
           /\ UNCHANGED <<impl, max_steps, next_mol, cur_grad, energies, gradients, cutoffs,
                          conv, limits, gprocess, calls, fault, applied, OtherFiles,
                          MecproOnly, StepVectors>>

EmNext ==
    \/ prepare_gaussian("easymecp", "A")
    \/ prepare_gaussian("easymecp", "B")
    \/ run_gaussian("A", 1)
    \/ run_gaussian("B", 2)
    \/ run_mecp
    \/ check_iteration

-----------------------------------------------------------------------------
(* mecpsh: MECPCalculation.run of main.py.  Its prepare_workspace and       *)
(* prepare_gaussian act as those of easymecp; its logs have no blank line,  *)
(* on which _parse_gradients would raise IndexError.                        *)

MshInit ==
    /\ impl = "mecpsh"
    /\ pc = "run_A"
    /\ max_steps \in 1 .. MaxSteps
    /\ start_step = 0 /\ step = 0
    /\ last_mol = zeros /\ cur_mol = zeros /\ next_mol = zeros
    /\ last_grad = zeros /\ cur_grad = zeros
    /\ last_hess = identity(<<7, 10>>)
    /\ energies = <<None, None>> /\ gradients = <<NoRows, NoRows>>
    /\ cutoffs = InputCutoffs
    /\ conv = NoConv /\ limits = NoLimits
    /\ ckpt = NoCheckpoint /\ gprocess = "None" /\ calls = NoCalls
    /\ ProgFile = InitialProgFile
    /\ geom \in { NoGeom, [exists |-> TRUE, X |-> zeros] }
    /\ ReportFile = << >>
    /\ fault = NoFault /\ applied = FALSE /\ signalled = FALSE
    /\ cur_hess = identity(<<7, 10>>) /\ raw_vector = zeros /\ diff_grad = zeros
    /\ par_grad = zeros /\ got = NoneYet

\* run_gaussian of main.py from the return of call(), whose value is dropped
msh_run_gaussian_done(X, n, status, log) ==
    /\ impl = "mecpsh" /\ pc = "wait_" \o X
    /\ \E r \in { parse_energy_and_gradients(log) } :
           /\ gprocess' = "None"
           /\ fault' = NoteFault(IF status # 0 THEN "exit" ELSE LogFault(log), step, X)
           /\ got' = [got EXCEPT ![X] = Outcome(status, log)]
           /\ ReportFile' = IF r.kind = "None" THEN report(ReportFile, "ERROR") ELSE ReportFile
           /\ IF r.kind = "StopIteration"
              THEN pc' = "Crashed" /\ UNCHANGED <<energies, gradients>>
              ELSE /\ pc' = IF X = "A" THEN "run_B" ELSE "mecp"
                   /\ energies' = [energies EXCEPT ![n] = r.energy]
                   /\ gradients' = [gradients EXCEPT ![n] = r.gradients]
           /\ UNCHANGED <<impl, max_steps, step, next_mol, cur_grad, cutoffs, conv, limits,
                          calls, applied, ProgFile, geom, MecproOnly, StepVectors>>

msh_run_gaussian(X, n) ==
    \E status \in Statuses, kind \in LogKinds, e \in ProviderEnergies,
       g \in ProviderGradients[X] :
        \E log \in { Log(kind, e, g) } : msh_run_gaussian_done(X, n, status, log)

\* prepare_ab_initio of main.py: '{}  {}   {}   {}'.format(*[l for l in gradients_a])
\* takes the rows themselves as the four fields and raises IndexError when
\* there are fewer than four of them, which is the case of every molecule of
\* the model
msh_prepare_ab_initio ==
    /\ impl = "mecpsh" /\ pc = "mecp"
    /\ NAtoms < 4
    /\ pc' = IF ~(energies[1].some /\ energies[2].some
                  /\ gradients[1].some /\ gradients[2].some)
             THEN "Failed" ELSE "Crashed"
    /\ UNCHANGED <<impl, max_steps, step, next_mol, cur_grad, energies, gradients,
                   cutoffs, conv, limits, gprocess, calls, fault, applied, OtherFiles,
                   MecproOnly, StepVectors, got>>

MshNext ==
    \/ prepare_gaussian("mecpsh", "A")
    \/ prepare_gaussian("mecpsh", "B")
    \/ msh_run_gaussian("A", 1)
    \/ msh_run_gaussian("B", 2)
    \/ msh_prepare_ab_initio

-----------------------------------------------------------------------------
(* The three drivers together.                                              *)

Init == MecproInit \/ EmInit \/ MshInit

Next == MecproNext \/ EmNext \/ MshNext

Spec == Init /\ [][Next]_vars

-----------------------------------------------------------------------------
(* Properties of the drivers.                                               *)

\* the run met no provider fault and no numerical fault, and no signal
CleanRun == fault.kind = "none" /\ ~signalled

\* C2: with max_steps = n >= 1 and a provider that always succeeds without
\* ever giving convergence, the driver makes exactly n iterations, that is n
\* provider invocations per state, and then ends in MaxStepsReached: it never
\* stops before the n-th iteration and never starts an (n+1)-th.
C2_ExactlyMaxSteps ==
    /\ calls.A <= max_steps /\ calls.B <= max_steps
    /\ pc = "MaxStepsReached" =>
          /\ calls.A = max_steps /\ calls.B = max_steps
          /\ step = start_step + max_steps
    /\ (pc \in Terminal /\ CleanRun /\ pc # "Converged") => pc = "MaxStepsReached"

\* C3: when a provider invocation exits with a nonzero status the run ends in
\* Failed in that iteration, whatever its log holds, and no optimiser step is
\* made from the data of that invocation.
C3_NonzeroExitFails ==
    fault.kind = "exit" =>
        /\ ~applied
        /\ step = fault.at
        /\ pc \in Terminal => pc = "Failed"

\* C4: when a provider output lacks the energy, lacks the gradient section or
\* holds fewer gradient rows than atoms, the run ends in Failed in that same
\* iteration and the driver goes on to no further iteration.
C4_IncompleteOutputFails ==
    fault.kind \in { "noenergy", "noforces", "fewrows" } =>
        /\ step = fault.at
        /\ pc \in Terminal => pc = "Failed"

\* C5: when a provider log holds the 'Convergence failure' marker the run
\* ends in Failed in that same iteration, no effective gradient, geometry
\* update or convergence decision is computed from that log, and the failed
\* job is not run again.
C5_ConvergenceFailureFails ==
    fault.kind = "convfail" =>
        /\ ~applied
        /\ step = fault.at
        /\ calls[fault.who] = fault.at - start_step + 1
        /\ pc \notin { "step", "check" }
        /\ pc \in Terminal => pc = "Failed"

\* C6: when the two gradients are equal (zero-norm perpendicular vector) the
\* effective gradient fails with DegenerateGradient: the driver ends in
\* Failed, it produces no effective gradient and iterates no further.
C6_DegenerateGradientFails ==
    fault.kind = "degenerate" =>
        /\ ~applied
        /\ pc = "Failed"
        /\ step = fault.at

\* C7: at a step > 0 with dGrad.dCoord = 0 the Hessian update fails with
\* StationaryUpdate: the driver ends in Failed and no geometry or inverse
\* Hessian of that update is produced or persisted.
C7_StationaryUpdateFails ==
    fault.kind = "stationary" =>
        /\ ~applied
        /\ pc = "Failed"
        /\ step = fault.at

\* the state main holds after the hand-over of a step, which save_state has
\* just written
JustSaved ==
    /\ impl = "mecpro"
    /\ pc \in { "run_A", "MaxStepsReached" }
    /\ step > start_step
    /\ ckpt.exists /\ ckpt.current_step = step

\* C8: a run resumed from the checkpoint written after step k goes through
\* the same geometries as the uninterrupted run: the geometry recomputed on
\* resume is the one the uninterrupted run proposed at step k, and the state
\* from which every later geometry and inverse Hessian follows is the same.
C8_ResumeReproducesRun ==
    JustSaved =>
        /\ resume(ckpt).cur_mol = cur_mol
        /\ resume(ckpt).last_mol = last_mol
        /\ resume(ckpt).last_grad = last_grad
        /\ resume(ckpt).last_hess = last_hess
        /\ resume(ckpt).step = step

\* C9: when the TERM signal arrives in the middle of an iteration the driver
\* persists the current optimiser state (step index, geometry, effective
\* gradient, inverse Hessian) as a checkpoint before the process exits.
C9_CheckpointOnSignal ==
    signalled => ckpt = save_state(last_mol, last_hess, last_grad, step)

\* C10: after the TERM signal the driver starts no further provider
\* invocation and ends in Cancelled, never in Converged, Failed or
\* MaxStepsReached.
C10_CancelledAfterSignal ==
    /\ signalled => gprocess = "None" \/ pc \in Terminal
    /\ (signalled /\ pc \in Terminal) => pc = "Cancelled"

-----------------------------------------------------------------------------
(* The exit status of the process.                                          *)

\* sys.exit(n) with an integer n: the parent sees n modulo 256
sys_exit(n) == n % 256

\* mecp.py: status = main(job); sys.exit(status).  main returns 0 after
\* convergence, 1 after the last step and -1 from the handler of
\* MECPException; cleanup would leave by sys.exit(-2); an exception nothing
\* catches ends the interpreter with status 1
mecpro_exit(p) ==
    CASE p = "Converged" -> sys_exit(0)
      [] p = "MaxStepsReached" -> sys_exit(1)
      [] p = "Failed" -> sys_exit(-1)
      [] p = "Cancelled" -> sys_exit(-2)
      [] p = "Crashed" -> 1

\* easymecp.py and main.py: main() prints a message chosen by the result of
\* run() and returns None, so the process exits with 0 unless an exception
\* ended it
easymecp_exit(p) == IF p = "Crashed" THEN 1 ELSE 0

\* the exit status of the run that ended at pc
ExitStatus == IF impl = "mecpro" THEN mecpro_exit(pc) ELSE easymecp_exit(pc)

\* C11: the exit status is determined by the terminal state: 0 for Converged,
\* 1 for MaxStepsReached, 2 for Failed and 130 for Cancelled; no run that
\* ends otherwise (by a failure while loading or by a crash) exits with the
\* status of a run that converged or reached the last step.
C11_ExitCodes ==
    /\ pc = "Converged" => ExitStatus = 0
    /\ pc = "MaxStepsReached" => ExitStatus = 1
    /\ pc = "Failed" => ExitStatus = 2
    /\ pc = "Cancelled" => ExitStatus = 130
    /\ pc \in { "Failed", "Cancelled", "Crashed" } => ExitStatus \notin { 0, 1 }

-----------------------------------------------------------------------------
(* The Hessian updater on its own: update_coords of mecp.py and UpdateX of  *)
(* MECP.x applied to inputs drawn from small sets, one update after         *)
(* another, and the two step limits applied once more to a limited step.    *)
(* The maximum step length is 1 in the units of both programs.              *)

MaxUpdates == 2

UpdGradients == { <<R(1), R(0), R(0)>>, <<R(1), R(-1), R(0)>>, <<R(3), R(0), R(0)>>,
                  <<R(5), R(0), R(-1)>> }

UpdCoords == { <<R(0), R(0), R(0)>>, <<R(1), R(2), R(0)>> }

\* 0.7 * identity and two symmetric matrices a checkpoint may hold
UpdHessians ==
    { identity(<<7, 10>>),
      identity(R(1)),
      << <<R(1), R(1), R(0)>>, <<R(1), R(2), R(0)>>, <<R(0), R(0), R(1)>> >> }

\* a vector whose numbers are short enough for the arithmetic of a further
\* update to stay within the integers of the model checker
Short(v) == \A i \in Idx : v[i][2] <= 10 /\ Abs(v[i][1]) <= 10

\* the harness runs one of the two implementations
UpdImpls == { "update_coords", "UpdateX" }

UpdInit ==
    /\ impl \in UpdImpls
    /\ pc = "input"
    /\ step \in { 0, 1 }
    /\ last_mol = zeros
    /\ cur_mol \in UpdCoords
    /\ last_grad \in UpdGradients
    /\ cur_grad \in UpdGradients
    /\ last_hess \in UpdHessians
    /\ next_mol = zeros /\ cur_hess = identity(<<7, 10>>) /\ raw_vector = zeros
    /\ limits = NoLimits
    /\ max_steps = 0 /\ start_step = 0
    /\ energies = <<R(0), R(0)>> /\ gradients = "None" /\ cutoffs = InputCutoffs
    /\ conv = NoConv /\ ckpt = NoCheckpoint
    /\ gprocess = "None" /\ calls = NoCalls /\ ProgFile = NoFile
    /\ geom = NoFile /\ ReportFile = << >> /\ fault = NoFault
    /\ applied = FALSE /\ signalled = FALSE
    /\ diff_grad = zeros /\ par_grad = zeros /\ got = NoneYet

UpdFixed == <<impl, max_steps, start_step, energies, gradients, cutoffs, conv, ckpt,
              gprocess, calls, ProgFile, geom, ReportFile, fault, applied, signalled,
              diff_grad, par_grad, got>>

\* next_mol, cur_hess = update_coords(step, max_stepsize, (last_mol, cur_mol),
\*                                    (last_grad, cur_grad), last_hess)
update_python ==
    /\ impl = "update_coords" /\ pc = "input"
    /\ \E upd \in { update_coords(step, max_stepsize, last_mol, cur_mol, last_grad,
                                   cur_grad, last_hess) } :
           IF upd.kind = "MECPException"
           THEN /\ pc' = "refused"
                /\ UNCHANGED <<next_mol, cur_hess, raw_vector, limits>>
           ELSE /\ pc' = "updated"
                /\ next_mol' = upd.mol
                /\ cur_hess' = upd.hessian
                /\ raw_vector' = upd.raw
                /\ limits' = upd.limits
    /\ UNCHANGED <<step, last_mol, cur_mol, last_grad, cur_grad, last_hess, UpdFixed>>

\* CALL UpdateX(Nx,Nstep,FFile,X_1,X_2,X_3,G_1,G_2,IH_1,IH_2); with Nstep = 0
\* and FFile = 0 the inverse Hessian is the one Initialize has set
update_fortran ==
    /\ impl = "UpdateX" /\ pc = "input"
    /\ step = 0 => last_hess = identity(<<7, 10>>)
    /\ \E upd \in { UpdateX(step, IF step = 0 THEN 0 ELSE 1, last_mol, cur_mol,
                             last_grad, cur_grad, last_hess) } :
           /\ pc' = "updated"
           /\ next_mol' = upd.X_3
           /\ cur_hess' = upd.HI_2
           /\ raw_vector' = upd.raw
           /\ limits' = upd.limits
    /\ UNCHANGED <<step, last_mol, cur_mol, last_grad, cur_grad, last_hess, UpdFixed>>

\* the hand-over of the loop, with the effective gradient of the next step
next_update ==
    /\ impl \in UpdImpls /\ pc = "updated"
    /\ step < MaxUpdates
    /\ ~VHasNF(next_mol)
    /\ Short(next_mol) /\ \A i \in Idx : Short(cur_hess[i])
    /\ pc' = "input"
    /\ step' = step + 1
    /\ last_mol' = cur_mol
    /\ cur_mol' = next_mol
    /\ last_grad' = cur_grad
    /\ last_hess' = cur_hess
    /\ cur_grad' \in UpdGradients
    /\ UNCHANGED <<next_mol, cur_hess, raw_vector, limits, UpdFixed>>

\* lines 283-291 of update_coords applied to the step just made
relimit_python ==
    /\ impl = "update_coords" /\ pc = "updated"
    /\ \E lim \in { limit_step(VSub(next_mol, cur_mol), max_stepsize,
                               RMul(max_stepsize, R(Nx))) } :
           /\ pc' = "relimited"
           /\ next_mol' = VAdd(cur_mol, lim.vector)
    /\ UNCHANGED <<step, last_mol, cur_mol, last_grad, cur_grad, last_hess, cur_hess,
                   raw_vector, limits, UpdFixed>>

\* lines 1566-1587 of UpdateX applied to the step just made
relimit_fortran ==
    /\ impl = "UpdateX" /\ pc = "updated"
    /\ \E lim \in { LimitChgeX(VSub(next_mol, cur_mol), RMul(STPMX, R(Nx))) } :
           /\ pc' = "relimited"
           /\ next_mol' = VAdd(cur_mol, lim.ChgeX)
    /\ UNCHANGED <<step, last_mol, cur_mol, last_grad, cur_grad, last_hess, cur_hess,
                   raw_vector, limits, UpdFixed>>

UpdNext ==
    \/ update_python
    \/ update_fortran
    \/ next_update
    \/ relimit_python
    \/ relimit_fortran

SpecUpd == UpdInit /\ [][UpdNext]_vars

\* an update has just been made
Updated == impl \in UpdImpls /\ pc = "updated"

\* the original statement of C12: at step index 0 the step before the limits
\* is -0.7 times the effective gradient whatever inverse Hessian is passed
\* in, and the inverse Hessian is returned unchanged
C12_StepZeroIsScaledGradient ==
    (Updated /\ step = 0) =>
        /\ raw_vector = VScale(<<-7, 10>>, cur_grad)
        /\ cur_hess = last_hess

\* C12: at step index 0 the inverse Hessian is returned unchanged and the
\* step before the limits is minus the inverse Hessian passed in times the
\* effective gradient; that is -0.7 times the effective gradient when the
\* inverse Hessian is 0.7 * identity, as in a fresh start.
C12_StepZero ==
    (Updated /\ step = 0) =>
        /\ cur_hess = last_hess
        /\ raw_vector = VNeg(MatVec(last_hess, cur_grad))
        /\ last_hess = identity(<<7, 10>>) => raw_vector = VScale(<<-7, 10>>, cur_grad)

\* an update at step index 0 with a stored inverse Hessian, and one of a
\* fresh start
C12_Witness ==
    /\ Updated /\ step = 0
    /\ last_hess # identity(<<7, 10>>)
    /\ raw_vector # VScale(<<-7, 10>>, cur_grad)
    /\ ~RIsZero(inner(cur_grad, cur_grad))

Symmetric(H) == \A i \in Idx : \A j \in Idx : ~IsNF(H[i][j]) /\ H[i][j] = H[j][i]

\* the two numbers the update of this step divides by: dGrad.dCoord, and in
\* UpdateX also dGrad.H.dGrad
Curvature == inner(VSub(cur_grad, last_grad), VSub(cur_mol, last_mol))

HCurvature ==
    With(VSub(cur_grad, last_grad), LAMBDA y : inner(y, MatVec(last_hess, y)))

C14_LimitIdempotent ==
    [][(impl \in UpdImpls /\ pc' = "relimited") => next_mol' = next_mol]_vars

\* a step that both limits had cut, after the limits were applied again
C14_Witness ==
    /\ impl \in UpdImpls /\ pc = "relimited"
    /\ limits[1] /\ limits[2]
    /\ next_mol # VAdd(cur_mol, raw_vector)

\* the original statement of C15: the first limit fires exactly when the
\* norm of the step exceeds max_step_length * sqrt(3 * atoms)
C15_FirstLimitSqrt ==
    Updated =>
        (limits[1] <=> RGt(inner(raw_vector, raw_vector),
                           RMul(RMul(max_stepsize, max_stepsize), R(Nx))))

\* the step made is the step before the limits scaled by one factor c > 0
Uniform(raw, made) ==
    /\ \A i \in Idx : \A j \in Idx : RMul(raw[i], made[j]) = RMul(raw[j], made[i])
    /\ \A i \in Idx : RLt(R(0), raw[i]) <=> RLt(R(0), made[i])

\* C15: the first limit fires exactly when the norm of the step exceeds
\* max_step_length * (3 * atoms), and it then rescales the whole step by one
\* factor so that its norm is that bound.
C15_FirstLimit ==
    Updated =>
        /\ limits[1] <=> RGt(inner(raw_vector, raw_vector),
                             RMul(RMul(max_stepsize, R(Nx)), RMul(max_stepsize, R(Nx))))
        /\ limits[1] =>
              /\ limit_step(raw_vector, max_stepsize, RMul(max_stepsize, R(Nx))).norm2
                    = RMul(RMul(max_stepsize, R(Nx)), RMul(max_stepsize, R(Nx)))
              /\ LimitChgeX(raw_vector, RMul(STPMX, R(Nx))).norm2
                    = RMul(RMul(STPMX, R(Nx)), RMul(STPMX, R(Nx)))
              /\ Uniform(raw_vector, VSub(next_mol, cur_mol))

\* a step longer than max_step_length * (3 * atoms), and one between that and
\* max_step_length * sqrt(3 * atoms)
C15_Witness ==
    /\ Updated
    /\ limits[1]
    /\ RGt(inner(raw_vector, raw_vector), R(Nx * Nx))

-----------------------------------------------------------------------------
(* The effective gradient on its own: effective_gradient of mecp.py and      *)
(* Effective_Gradient of MECP.x applied to energies and gradients drawn from *)
(* small sets.                                                               *)

GradVectors == { <<R(1), R(0), R(0)>>, <<R(0), R(2), R(0)>>, <<R(1), R(-1), R(2)>>,
                 <<R(-3), R(1), R(1)>>, <<R(2), R(2), R(-1)>> }

GradEnergies == { <<R(0), R(0)>>, <<R(-1), R(1)>>, <<<<1, 2>>, <<-3, 10>>>> }

GradImpls == { "effective_gradient", "Effective_Gradient" }

GradInit ==
    /\ impl \in GradImpls
    /\ pc = "input"
    /\ energies \in GradEnergies
    /\ gradients \in GradVectors \X GradVectors
    /\ cur_grad = zeros /\ diff_grad = zeros /\ par_grad = zeros
    /\ cur_mol = zeros /\ next_mol = zeros
    /\ cutoffs = InputCutoffs /\ conv = NoConv
    /\ max_steps = 0 /\ start_step = 0 /\ step = 0
    /\ last_mol = zeros /\ last_grad = zeros /\ last_hess = identity(<<7, 10>>)
    /\ limits = NoLimits /\ ckpt = NoCheckpoint
    /\ gprocess = "None" /\ calls = NoCalls /\ ProgFile = NoFile
    /\ geom = NoFile /\ ReportFile = << >> /\ fault = NoFault
    /\ applied = FALSE /\ signalled = FALSE
    /\ cur_hess = identity(<<7, 10>>) /\ raw_vector = zeros /\ got = NoneYet

GradFixed ==
    UNCHANGED <<impl, max_steps, start_step, step, last_mol, cur_mol, next_mol,
                last_grad, last_hess, energies, gradients, cutoffs, conv,
                limits, ckpt, gprocess, calls, ProgFile, geom, ReportFile,
                fault, applied, signalled, cur_hess, raw_vector, got>>

\* diff_grad, par_grad, cur_grad = effective_gradient(energies, gradients)
gradient_python ==
    /\ impl = "effective_gradient" /\ pc = "input"
    /\ \E eg \in { effective_gradient(energies, gradients) } :
        /\ diff_grad' = eg.diff
        /\ par_grad' = eg.par
        /\ cur_grad' = eg.effective
    /\ pc' = "computed"
    /\ GradFixed

\* CALL Effective_Gradient(Nx, Ea, Eb, Ga, Gb, ParG, PerpG, G)
gradient_fortran ==
    /\ impl = "Effective_Gradient" /\ pc = "input"
    /\ \E eg \in { Effective_Gradient(energies[1], energies[2],
                                      gradients[1], gradients[2]) } :
        /\ diff_grad' = eg.PerpG
        /\ par_grad' = eg.ParG
        /\ cur_grad' = eg.G
    /\ pc' = "computed"
    /\ GradFixed

GradNext == gradient_python \/ gradient_fortran

SpecGrad == GradInit /\ [][GradNext]_vars

\* the harness has computed the three vectors of a pair with gA # gB
Computed == impl \in GradImpls /\ pc = "computed" /\ gradients[1] # gradients[2]

\* C16: for every pair of gradients with gA # gB the parallel vector that
\* EffectiveGradient returns is orthogonal to the difference vector gA - gB:
\* their dot product is exactly 0.
C16_ParallelOrthogonal ==
    Computed =>
        /\ ~VHasNF(par_grad)
        /\ inner(par_grad, VSub(gradients[1], gradients[2])) = R(0)
        /\ inner(par_grad, diff_grad) = R(0)

\* a pair whose parallel vector is not zero and whose gradient gA is not
\* orthogonal to the difference, so that the projection removes something
C16_Witness ==
    /\ Computed
    /\ par_grad # zeros
    /\ inner(gradients[1], diff_grad) # R(0)
    /\ par_grad # gradients[1]

\* the square of the norm of gA - gB
GradNorm2 == With(VSub(gradients[1], gradients[2]), LAMBDA p : inner(p, p))

\* what the other implementation returns for the energies and gradients of
\* this state
OtherGradient ==
    IF impl = "effective_gradient"
    THEN With(Effective_Gradient(energies[1], energies[2], gradients[1], gradients[2]),
              LAMBDA eg : <<eg.PerpG, eg.ParG, eg.G>>)
    ELSE With(effective_gradient(energies, gradients),
              LAMBDA eg : <<eg.diff, eg.par, eg.effective>>)

\* C17: EffectiveGradient returns perpendicular = gA - gB,
\* parallel = gA - (perpendicular/|perpendicular|) * ((gA.perpendicular)/|perpendicular|)
\* and effective = 140 * (Ea - Eb) * perpendicular + 1 * parallel, and the
\* Fortran solver and the NumPy port return the same three vectors for every
\* input with gA # gB.  The parallel vector is compared after multiplying
\* both sides by |perpendicular|^2.
C17_EffectiveGradient ==
    Computed =>
        /\ diff_grad = VSub(gradients[1], gradients[2])
        /\ ~VHasNF(par_grad)
        /\ VScale(GradNorm2, par_grad)
             = VSub(VScale(GradNorm2, gradients[1]),
                    VScale(inner(gradients[1], diff_grad), diff_grad))
        /\ cur_grad = VAdd(VScale(RMul(R(140), RSub(energies[1], energies[2])), diff_grad),
                           par_grad)
        /\ <<diff_grad, par_grad, cur_grad>> = OtherGradient

\* a pair with different energies, so that the term in the energy difference
\* is there, and with a parallel vector that is not zero
C17_Witness ==
    /\ Computed
    /\ energies[1] # energies[2]
    /\ par_grad # zeros
    /\ cur_grad # par_grad
    /\ par_grad # gradients[1]

-----------------------------------------------------------------------------
(* The checkpoint across a crash.                                           *)

\* the checkpoint can be read back as a state to resume from
Readable(file) == file.exists /\ file.complete

\* C18: if the process crashes at any point during a checkpoint write, the
\* valid checkpoint written before is still intact and readable afterwards: no
\* step of the program takes a readable checkpoint to an unreadable one.
C18_CheckpointSurvivesCrash ==
    [][(impl = "mecpro" /\ Readable(ckpt)) => Readable(ckpt')]_vars

-----------------------------------------------------------------------------
(* The drivers with their own steps taken whenever they can be: a driver    *)
(* that is not blocked goes on.  Nothing makes a child process end, the     *)
(* signal arrive or a new run be started.                                    *)

DriverSteps ==
    \/ run_g09_start("A")
    \/ run_g09_start("B")
    \/ main_step
    \/ prepare_gaussian("easymecp", "A")
    \/ prepare_gaussian("easymecp", "B")
    \/ run_mecp
    \/ check_iteration
    \/ prepare_gaussian("mecpsh", "A")
    \/ prepare_gaussian("mecpsh", "B")
    \/ msh_prepare_ab_initio

SpecLive == Spec /\ WF_vars(DriverSteps)

\* the driver is blocked in the call that runs the provider
Waiting == pc \in { "wait_A", "wait_B" }

\* C19: every provider invocation is bounded by a timeout, on whose expiry the
\* driver ends in Failed, so a provider that never returns cannot keep the
\* driver from a terminal state: a driver that waits for the provider
\* reaches a terminal state.
C19_ProviderTimeout == Waiting ~> (pc \in Terminal)

-----------------------------------------------------------------------------
(* Both results before the step.                                            *)

\* this step computes the effective gradient, the update and the convergence
\* test: the body of the loop of mecpro's main, or a run of MECP.x that
\* reports to ReportFile
Computes ==
    \/ impl = "mecpro" /\ pc = "step" /\ pc' # "step" /\ ~signalled'
    \/ impl = "easymecp" /\ pc = "mecp" /\ ReportFile' # ReportFile

BothObtained == got = [A |-> "ok", B |-> "ok"]

\* C20: in every iteration the effective gradient, the geometry update and
\* the convergence check are computed only after the results of both state A
\* and state B for the current geometry have been obtained successfully.
C20_BothResultsFirst == [][Computes => BothObtained]_vars

-----------------------------------------------------------------------------
(* The geometry a converged run reports.                                    *)

\* the geometry of the iteration: cur_mol in mecpro's main, X_2 in MECP.x
CurrentGeometry == IF impl = "mecpro" THEN cur_mol ELSE ProgFile.X_2

\* this step makes the convergence decision of an iteration: the body of the
\* loop of mecpro's main run to its end, or a run of MECP.x that reports
Decides ==
    \/ impl = "mecpro" /\ pc = "step" /\ pc' \in { "Converged", "run_A", "MaxStepsReached" }
    \/ impl = "easymecp" /\ pc = "mecp" /\ ReportFile' # ReportFile

\* nothing that holds a geometry for a later iteration or run is written
NothingPersisted ==
    /\ CurrentGeometry' = CurrentGeometry
    /\ geom' = geom /\ ProgFile' = ProgFile /\ ckpt' = ckpt /\ step' = step

\* C21: the convergence decision of an iteration is computed from the
\* displacement between the current geometry and the proposed next one; when
\* the decision is 'converged' the geometry reported as final is the current
\* one, and the proposed geometry is neither written out as the next geometry
\* nor persisted.
C21_ConvergedReportsCurrent ==
    [][/\ (Decides /\ ~VHasNF(next_mol')) =>
            With(VSub(next_mol', CurrentGeometry), LAMBDA d :
                /\ conv'.flags[3] <=> RLt(LargestAbs(d), cutoffs.max_chg)
                /\ conv'.flags[4] <=> RLt(MeanSquare(d), RMul(cutoffs.rms_chg, cutoffs.rms_chg)))
       /\ (Decides /\ conv'.all) => NothingPersisted
       /\ (pc' = "Converged" /\ pc # "Converged") => (conv'.all /\ NothingPersisted)]_vars

\* a run that has converged on a proposed geometry other than the current one
C21_Witness ==
    /\ impl \in { "mecpro", "easymecp" }
    /\ pc = "Converged" /\ conv.all
    /\ next_mol # CurrentGeometry

-----------------------------------------------------------------------------
(* What MECPCalculation.run gives back.                                     *)

\* the value run() returns; "raised" when it ends by an exception that
\* nothing catches
run_result ==
    CASE pc = "Converged" -> "OK"
      [] pc = "Failed" -> "ERROR"
      [] pc = "MaxStepsReached" -> "MAX_ITERATIONS_REACHED"
      [] pc = "Crashed" -> "raised"
      [] OTHER -> "running"

\* self.converged_at: set to i right before run() returns OK; -1 for None
converged_at == IF pc = "Converged" THEN step ELSE -1

\* the iteration the run is in had no Gaussian and no MECP.x error, and the
\* optimizer reported convergence in it
ConvergedCleanly ==
    /\ step < max_steps
    /\ BothObtained
    /\ conv.all
    /\ ReportFile # << >> /\ ReportFile[Len(ReportFile)] = "CONVERGED"
    /\ \A k \in 1 .. Len(ReportFile) : ReportFile[k] # "ERROR"

\* C22: run() returns OK if and only if some iteration i < max_steps was
\* completed without any Gaussian or MECP.x error and the optimizer reported
\* convergence in it, and then converged_at = i; every other run returns
\* ERROR or MAX_ITERATIONS_REACHED and leaves converged_at at None.
C22_RunResult ==
    (impl \in { "easymecp", "mecpsh" } /\ pc \in Terminal) =>
        /\ run_result = "OK" <=> ConvergedCleanly
        /\ run_result = "OK" => converged_at = step
        /\ run_result # "OK" =>
              /\ run_result \in { "ERROR", "MAX_ITERATIONS_REACHED" }
              /\ converged_at = -1

-----------------------------------------------------------------------------
(* The size of a limited step.                                              *)

\* x <= y between two numbers; false when one of them is not finite
RLe(x, y) == RLt(x, y) \/ (~IsNF(x) /\ x = y)

\* the displacement of the step just made
Displacement == VSub(next_mol, cur_mol)

\* C23: in every iteration, cold start or BFGS step, after the limits every
\* coordinate of next - current has absolute value <= max_step_length, and
\* whenever the second limit fires the largest one is exactly max_step_length.
C23_StepBounded ==
    Updated =>
        /\ \A i \in Idx : RLe(RAbs(Displacement[i]), max_stepsize)
        /\ limits[2] => LargestAbs(Displacement) = max_stepsize

-----------------------------------------------------------------------------
(* The BFGS update of the two implementations against its formula.          *)

\* the outer product of two vectors
Outer(u, v) == With2(u, v, LAMBDA a, b : Vec(LAMBDA i : Vec(LAMBDA j : RMul(a[i], b[j]))))

MAdd(A, B) == With2(A, B, LAMBDA P, Q : Vec(LAMBDA i : VAdd(P[i], Q[i])))

MScale(c, A) == With2(c, A, LAMBDA k, P : Vec(LAMBDA i : VScale(k, P[i])))

\* H + a (dCoord x dCoord) - b (Hy x Hy) + (dGrad.Hy) (w x w) with Hy = H dGrad,
\* a = 1/(dGrad.dCoord), b = 1/(dGrad.Hy), w = a dCoord - b Hy
InverseBFGS(H, dGrad, dCoord) ==
    With(MatVec(H, dGrad), LAMBDA Hy :
    With2(RDiv(R(1), inner(dGrad, dCoord)), RDiv(R(1), inner(dGrad, Hy)), LAMBDA a, b :
    With(VSub(VScale(a, dCoord), VScale(b, Hy)), LAMBDA w :
        MAdd(MAdd(H, MScale(a, Outer(dCoord, dCoord))),
             MAdd(MScale(RNeg(b), Outer(Hy, Hy)),
                  MScale(inner(dGrad, Hy), Outer(w, w)))))))

\* a BFGS step whose two divisors are not zero
RegularUpdate ==
    /\ Updated /\ step > 0
    /\ Symmetric(last_hess)
    /\ ~RIsZero(Curvature) /\ ~RIsZero(HCurvature)

\* C24: for step > 0, a symmetric H, dGrad.dCoord # 0 and dGrad.H.dGrad # 0
\* the inverse Hessian of update_coords and that of UpdateX both equal
\* H + a (dCoord x dCoord) - b (Hy x Hy) + (dGrad.Hy) (w x w), and the raw
\* step is -H_new times the current effective gradient.
C24_SameBFGS ==
    RegularUpdate =>
        /\ cur_hess = InverseBFGS(last_hess, VSub(cur_grad, last_grad),
                                  VSub(cur_mol, last_mol))
        /\ raw_vector = VNeg(MatVec(cur_hess, cur_grad))

\* an update of a matrix that is not diagonal, by each implementation
C24_Witness ==
    /\ RegularUpdate
    /\ cur_hess # last_hess
    /\ ~RIsZero(last_hess[1][2])
    /\ raw_vector # zeros

-----------------------------------------------------------------------------
(* The step index and the checkpoint between two iterations.                *)

\* the driver has started, or is about to start, a provider job
Invoking == pc \in { "run_A", "wait_A", "run_B", "wait_B" }

\* the checkpoint holds the state the iteration before this one ended with:
\* <jobname>.next.mecp for mecpro, ProgFile and geom for easymecp
CheckpointOfStep ==
    IF impl = "mecpro"
    THEN /\ Readable(ckpt)
         /\ ckpt.current_step = step
         /\ ckpt.geometry = Vec(LAMBDA i : atom_str(last_mol[i]))
         /\ ckpt.gradient = last_grad
         /\ ckpt.hessian = last_hess
    ELSE /\ ProgFile.exists /\ ProgFile.FFile = 1
         /\ ProgFile.Nstep = step
         /\ ProgFile.G = cur_grad
         /\ ProgFile.X_2 = next_mol
         /\ geom.exists /\ geom.X = next_mol

\* what a step of a driver does to the step index and the checkpoint
StepThenCheckpoint ==
    /\ (step' # step /\ pc \notin Terminal) => (step' = step + 1 /\ ~conv'.all)
    /\ (step' = step + 1 /\ Invoking') => CheckpointOfStep'
    /\ (pc' = "Converged" /\ pc # "Converged")
          => (step' = step /\ ckpt' = ckpt /\ ProgFile' = ProgFile /\ geom' = geom)

\* C25: after every iteration that has not converged the driver increments
\* the step index by exactly 1 and persists a checkpoint with the step index,
\* geometry, effective gradient and inverse Hessian of that iteration before
\* the provider is invoked for the next one; after a converged iteration the
\* step index is not incremented and no checkpoint is written.
C25_CheckpointEachStep ==
    [][(impl \in { "mecpro", "easymecp" }) => StepThenCheckpoint]_vars

-----------------------------------------------------------------------------
(* No provider job after a failed one.                                      *)

\* what LogFault and the exit status tell of a provider job
ProviderFaults == { "exit", "convfail", "noenergy", "noforces", "fewrows" }

\* a provider job of this run has failed
ProviderFailed ==
    \/ got.A = "failed" \/ got.B = "failed"
    \/ fault.kind \in ProviderFaults

\* this step starts a provider job
Invokes == \E X \in { "A", "B" } : calls'[X] = calls[X] + 1

\* C26: once a provider invocation of a run has failed the driver makes no
\* further provider invocation in that run: a failed job for state A is not
\* followed by the job for state B, and no job is retried.
C26_NoInvocationAfterFailure == [][ProviderFailed => ~Invokes]_vars


-----------------------------------------------------------------------------
(* C27: an abort of MECP.x ends the run of easymecp.                        *)

\* MECP.x is launched on the ab_initio file and its ReadInput ends in
\* error_handling, which stops before anything is written
MecpAborts ==
    /\ impl = "easymecp" /\ pc = "mecp"
    /\ energies[1].some /\ energies[2].some
    /\ gradients[1].some /\ gradients[2].some
    /\ ~ShortRow(gradients[1]) /\ ~ShortRow(gradients[2])
    /\ ReadInput(energies[1].v, gradients[1].rows,
                 energies[2].v, gradients[2].rows).error # 0

\* WriteGeomFile and WriteProgFile ran in iteration i: geom holds the
\* geometry that ProgFile counts as step i + 1
GeomWrittenIn(i) ==
    /\ geom.exists /\ ProgFile.exists
    /\ ProgFile.Nstep = i + 1
    /\ geom.X = ProgFile.X_2

\* the for loop of run goes on to the next iteration
NextIteration == impl = "easymecp" /\ pc = "check" /\ pc' = "run_A"

\* C27: in easymecp, when MECP.x aborts without producing a new geometry the
\* run ends with ERROR, and run never starts a further iteration on a geom
\* file that the iteration just completed did not write.
C27_AbortEndsRun ==
    [][/\ MecpAborts => pc' = "Failed"
       /\ NextIteration => GeomWrittenIn(step)]_vars


-----------------------------------------------------------------------------
(* mecpro: main of mecp.py from its first statement, read_prog.  In the     *)
(* start state ckpt holds the input file <jobname>.mecp, which has the      *)
(* format of a checkpoint; <jobname>.next.mecp does not exist yet.          *)

\* a [hessian] section of the given size, as _parsehessian returns it
SizedHessian(n) == MkVec(LAMBDA i : MkVec(LAMBDA j : IF i = j THEN <<7, 10>> ELSE R(0), n), n)

\* a [gradient] section with n numbers, as _parsegradient returns it
SizedGradient(n) == MkVec(LAMBDA i : R(0), n)

\* the sizes of the sections of the input files of the model; a [gradient]
\* section may be empty, a [hessian] section may not
SectionSizes == { 2, 3 }

InputHessians ==
    { [some |-> FALSE, m |-> identity(R(0))] }
        \cup { [some |-> TRUE, m |-> SizedHessian(n)] : n \in SectionSizes }

InputGradients ==
    { [some |-> FALSE, v |-> zeros] }
        \cup { [some |-> TRUE, v |-> SizedGradient(n)] : n \in SectionSizes \cup { 0 } }
        \cup { [some |-> TRUE, v |-> <<R(1), R(0), R(0)>>] }

InputFiles ==
    { [exists |-> TRUE, complete |-> TRUE, geometry |-> zeros,
       hessian |-> h.m, gradient |-> g.v, current_step |-> s,
       has_hessian |-> h.some, has_gradient |-> g.some] :
          h \in InputHessians, g \in InputGradients, s \in { 0, 1 } }

\* read_prog after mecpinput.read: "Resuming options - Assert validity"
read_prog(opts) ==
    IF opts.has_hessian
    THEN IF ~opts.has_gradient THEN "MECPException"
         ELSE IF Len(opts.hessian) # Len(opts.gradient) THEN "MECPException"
         ELSE IF Len(opts.gradient) # NAtoms * 3 THEN "MECPException"
         ELSE "ok"
    ELSE IF opts.has_gradient THEN "MECPException"
    ELSE "ok"

ReadInit ==
    /\ impl = "mecpro"
    /\ pc = "read"
    /\ ckpt \in InputFiles
    /\ max_steps \in 1 .. MaxSteps
    /\ ckpt.current_step + max_steps <= MaxSteps
    /\ start_step = 0 /\ step = 0
    /\ last_mol = zeros /\ cur_mol = zeros /\ next_mol = zeros
    /\ last_grad = zeros /\ cur_grad = zeros
    /\ last_hess = identity(<<7, 10>>)
    /\ energies = <<R(0), R(0)>> /\ gradients = <<zeros, zeros>>
    /\ cutoffs \in RunCutoffs
    /\ conv = NoConv /\ limits = NoLimits
    /\ gprocess = "None" /\ calls = NoCalls
    /\ ProgFile = NoFile /\ geom = NoFile /\ ReportFile = << >>
    /\ fault = NoFault /\ applied = FALSE /\ signalled = FALSE
    /\ cur_hess = identity(<<7, 10>>) /\ raw_vector = zeros /\ diff_grad = zeros
    /\ par_grad = zeros /\ got = NoneYet

\* main from read_prog to the entry of the loop.  read_prog is called before
\* the log is opened and outside the try statement: what it raises leaves
\* main and ends the interpreter.
main_read ==
    /\ impl = "mecpro" /\ pc = "read"
    /\ ckpt' = NoCheckpoint
    /\ IF read_prog(ckpt) = "MECPException"
       THEN /\ pc' = "Crashed"
            /\ UNCHANGED <<start_step, step, last_mol, cur_mol, last_grad, last_hess,
                           cur_hess, raw_vector>>
       ELSE /\ pc' = "run_A"
            /\ start_step' = ckpt.current_step /\ step' = ckpt.current_step
            /\ IF ckpt.has_hessian /\ ckpt.has_gradient
               THEN \E st \in { resume(ckpt) } :
                        /\ last_mol' = st.last_mol /\ cur_mol' = st.cur_mol
                        /\ last_grad' = st.last_grad /\ last_hess' = st.last_hess
                        /\ cur_hess' = st.cur_hess /\ raw_vector' = st.vector
               ELSE /\ last_mol' = ckpt.geometry /\ cur_mol' = ckpt.geometry
                    /\ last_grad' = zeros /\ last_hess' = identity(<<7, 10>>)
                    /\ UNCHANGED <<cur_hess, raw_vector>>
    /\ UNCHANGED <<impl, max_steps, next_mol, cur_grad, energies, gradients, cutoffs,
                   conv, limits, gprocess, calls, fault, applied, signalled, OtherFiles,
                   diff_grad, par_grad, got>>

ReadNext == main_read \/ MecproNext

SpecRead == ReadInit /\ [][ReadNext]_vars

\* the input has a Hessian without a gradient, a gradient without a Hessian,
\* or sections whose sizes are not 3 x atom count
InconsistentInput == impl = "mecpro" /\ pc = "read" /\ read_prog(ckpt) = "MECPException"

\* C28: a run started from an input with inconsistent resume data ends as
\* every other failure does (a message in the run log, the outcome Failed)
\* and makes no provider invocation.
C28_InconsistentResumeFails ==
    [][InconsistentInput => (pc' = "Failed" /\ calls' = NoCalls)]_vars


-----------------------------------------------------------------------------
(* C29: the first of the two step limits has no effect on the step made.    *)

\* the step before the limits scaled by min(1, max_step_length / max_i |raw_i|)
ScaledToLargest(raw) ==
    With2(raw, npmax(VAbs(raw)), LAMBDA v, mc :
        IF RGt(mc, max_stepsize)
        THEN Vec(LAMBDA i : RMul(v[i], RDiv(max_stepsize, mc)))
        ELSE v)

\* C29: with the first limit comparing the norm of the step with
\* max_step_length * N, N = 3 * atoms >= 3, the second limit fires whenever the
\* first does, and the step made is the step before the limits scaled by
\* min(1, max_step_length / max_i |raw_i|).
C29_FirstLimitRedundant ==
    Updated =>
        /\ limits[1] => limits[2]
        /\ Displacement = ScaledToLargest(raw_vector)

\* a step that the first limit cut, and that was made as the second limit
\* alone would have made it
C29_Witness ==
    /\ Updated
    /\ limits[1] /\ limits[2]
    /\ Displacement # raw_vector
    /\ LargestAbs(Displacement) = max_stepsize


-----------------------------------------------------------------------------
(* mecpro: run_g09 of gaussian.py statement by statement, with the handler  *)
(* of SIGTERM that main installs.  A handler written in Python runs between *)
(* two bytecodes of the main thread, so it may run after Popen has created  *)
(* the child and before the name _gprocess is bound to it.  got[X] is here  *)
(* the state of the child of the job of state X: "none", "running", "ok"    *)
(* (ended with status 0), "failed" (ended with another status) or           *)
(* "terminated".                                                            *)

TermFixed == <<start_step, last_mol, cur_mol, next_mol, cur_hess, raw_vector, diff_grad,
               par_grad, last_grad, cur_grad, last_hess, energies, gradients, cutoffs,
               conv, limits, ckpt, ProgFile, geom, ReportFile, fault, applied>>

TermInit ==
    /\ impl = "run_g09"
    /\ pc = "run_A"
    /\ max_steps \in 1 .. MaxSteps
    /\ start_step = 0 /\ step = 0
    /\ last_mol = zeros /\ cur_mol = zeros /\ next_mol = zeros
    /\ last_grad = zeros /\ cur_grad = zeros
    /\ last_hess = identity(<<7, 10>>)
    /\ energies = <<R(0), R(0)>> /\ gradients = <<zeros, zeros>>
    /\ cutoffs = InputCutoffs
    /\ conv = NoConv /\ limits = NoLimits
    /\ ckpt = NoCheckpoint /\ gprocess = "None" /\ calls = NoCalls
    /\ ProgFile = NoFile /\ geom = NoFile /\ ReportFile = << >>
    /\ fault = NoFault /\ applied = FALSE /\ signalled = FALSE
    /\ cur_hess = identity(<<7, 10>>) /\ raw_vector = zeros /\ diff_grad = zeros
    /\ par_grad = zeros /\ got = NoneYet

\* write_input(name, molecule, header, footer)
run_g09_write(X) ==
    /\ impl = "run_g09" /\ pc = "run_" \o X
    /\ pc' = "Popen_" \o X
    /\ UNCHANGED <<impl, max_steps, step, gprocess, calls, got, signalled, TermFixed>>

\* subprocess.Popen([_gaussian, name + '.com']) creates the child
run_g09_Popen(X) ==
    /\ impl = "run_g09" /\ pc = "Popen_" \o X
    /\ got' = [got EXCEPT ![X] = "running"]
    /\ calls' = [calls EXCEPT ![X] = @ + 1]
    /\ pc' = "store_" \o X
    /\ UNCHANGED <<impl, max_steps, step, gprocess, signalled, TermFixed>>

\* _gprocess = <the Popen object>
run_g09_store(X) ==
    /\ impl = "run_g09" /\ pc = "store_" \o X
    /\ gprocess' = X
    /\ pc' = "wait_" \o X
    /\ UNCHANGED <<impl, max_steps, step, calls, got, signalled, TermFixed>>

\* status = _gprocess.wait() returns when the child has ended
run_g09_wait(X) ==
    /\ impl = "run_g09" /\ pc = "wait_" \o X
    /\ got[X] # "running"
    /\ pc' = "reset_" \o X
    /\ UNCHANGED <<impl, max_steps, step, gprocess, calls, got, signalled, TermFixed>>

\* _gprocess = None and the return; call_gaussian raises MECPException when
\* the status is not 0, and after the job of state B the loop of main goes on
\* to its next step
run_g09_reset(X) ==
    /\ impl = "run_g09" /\ pc = "reset_" \o X
    /\ gprocess' = "None"
    /\ IF got[X] # "ok"
       THEN pc' = "Failed" /\ UNCHANGED step
       ELSE IF X = "A"
       THEN pc' = "run_B" /\ UNCHANGED step
       ELSE /\ step' = step + 1
            /\ pc' = IF step + 1 < max_steps THEN "run_A" ELSE "MaxStepsReached"
    /\ UNCHANGED <<impl, max_steps, calls, got, signalled, TermFixed>>

\* the child ends by itself
provider_exits(X) ==
    /\ impl = "run_g09"
    /\ got[X] = "running"
    /\ \E status \in Statuses :
           got' = [got EXCEPT ![X] = IF status = 0 THEN "ok" ELSE "failed"]
    /\ UNCHANGED <<impl, pc, max_steps, step, gprocess, calls, signalled, TermFixed>>

\* gaussian.terminate(): if _gprocess is not None: _gprocess.terminate()
terminate(handle, children) ==
    IF handle # "None" /\ children[handle] = "running"
    THEN [children EXCEPT ![handle] = "terminated"]
    ELSE children

\* SIGTERM is delivered while main is in its loop: cleanup calls
\* gaussian.terminate() and the process ends (by the TypeError of save_state)
term_cleanup ==
    /\ impl = "run_g09"
    /\ pc \notin Terminal
    /\ got' = terminate(gprocess, got)
    /\ signalled' = TRUE
    /\ pc' = "Crashed"
    /\ UNCHANGED <<impl, max_steps, step, gprocess, calls, TermFixed>>

TermNext ==
    \/ run_g09_write("A")
    \/ run_g09_write("B")
    \/ run_g09_Popen("A")
    \/ run_g09_Popen("B")
    \/ run_g09_store("A")
    \/ run_g09_store("B")
    \/ run_g09_wait("A")
    \/ run_g09_wait("B")
    \/ run_g09_reset("A")
    \/ run_g09_reset("B")
    \/ provider_exits("A")
    \/ provider_exits("B")
    \/ term_cleanup

SpecTerm == TermInit /\ [][TermNext]_vars

\* a provider process is alive
ProviderAlive == \E X \in { "A", "B" } : got[X] = "running"

\* C30: when the handler of TERM runs while a provider process spawned by
\* run_g09 is alive, gaussian.terminate() terminates that process; in no
\* interleaving is a live provider process left running after the driver
\* has exited.
C30_TerminateReachesProvider ==
    (impl = "run_g09" /\ signalled /\ pc \in Terminal) => ~ProviderAlive

=============================================================================
